---- MODULE Spec2Model ----
(***************************************************************************)
(* Form-field discovery across nested execution contexts: the content      *)
(* script (src/contentscript.ts), FormFiller (src/formfiller.ts) and the   *)
(* page scanner (src/unnamed/part_007).                                    *)
(*                                                                         *)
(* Specifications:                                                         *)
(*   Spec        the content script's event loop: initContentScript, the   *)
(*               MutationObserver callback, the debounce timer, 'scan'     *)
(*               messages and the steps of one scanDOM execution;          *)
(*   SpecContent the same loop with 'fill' messages and fillForm;          *)
(*   SpecScan    the three scanners as functions of a DOM that page        *)
(*               scripts build node by node;                               *)
(*   SpecFill    FormFiller.scanPage, _resolveElement and fillRow;         *)
(*   SpecQuery   scanDOM and queryDeepAll;                                 *)
(*   SpecMarkup  uniqueSelector and the label functions on pages with      *)
(*               classes and labels;                                       *)
(*   SpecRunner  FormFillerRunner (src/unnamed/part_006), SpecRunnerFair   *)
(*               with its awaits settling;                                 *)
(*   SpecPool    BrowserPool (src/unnamed/part_002), SpecPoolFair with     *)
(*               its launches and closes settling and leases released;     *)
(*   SpecBackground  the background script's jobs, alarms and mutex        *)
(*               (src/background.ts), SpecBackgroundFair with the          *)
(*               browser's requests settling;                              *)
(*   SpecTyping  simulateTyping (src/humansimulator.ts) and                *)
(*               FormFiller._typeText on one element.                      *)
(***************************************************************************)
EXTENDS Integers, Sequences, FiniteSets, TLC

VARIABLES
    dom,            \* the live DOM: a sequence of node records, node = index
    scanned,        \* the outcome of the last scanner call
    resolved,       \* the outcome of the last resolver / deep-query / fill call
    initPc,         \* Spec: position of initContentScript
    listening,      \* Spec: runtime.onMessage listener registered
    observer,       \* contentscript.ts:8   "null" or "set"
    debounceTimer,  \* contentscript.ts:292 0 (null) or the last timer id
    timers,         \* the browser's armed timeouts (ids)
    nextTimerId,    \* the id the next setTimeout returns
    records,        \* MutationRecords queued for the observer (microtask)
    frames,         \* scanDOM executions begun and not yet returned
    cachedFields,   \* contentscript.ts:7
    lastSent,       \* payload of the last runtime.sendMessage
    hist,           \* history variables read by the properties only
    fill,           \* Spec: the fillForm call in progress (contentscript.ts:217)
    runner,         \* SpecRunner: one FormFillerRunner (part_006:17-232)
    pool,           \* SpecPool: one BrowserPool and its callers (part_002)
    bg,             \* SpecBackground: the background script (background.ts)
    typing          \* SpecTyping: one text typed into one element

domVars == <<dom>>
scanVars == <<scanned, resolved>>
monitorVars == <<initPc, listening, observer, debounceTimer, timers,
                 nextTimerId, records, frames, cachedFields, lastSent, hist>>
extVars == <<fill, runner, pool, bg, typing>>
vars == <<dom, scanned, resolved, initPc, listening, observer, debounceTimer, timers,
          nextTimerId, records, frames, cachedFields, lastSent, hist, fill, runner,
          pool, bg, typing>>

(***************************************************************************)
(* Bounds of the model.                                                    *)
(***************************************************************************)
MaxElems == 3        \* elements page scripts add in SpecScan
MaxShadows == 1      \* shadow roots attached in SpecScan
MaxDepthOpt == 8     \* largest ScanOptions.maxDepth tried
MaxMutations == 2    \* page mutations in Spec
MaxScanMsgs == 2     \* 'scan' command messages in Spec

DefaultMaxDepth == 7

NoNode == 0
Null == "null"

\* a value of type FieldInfo[] | null
NullList == [isNull |-> TRUE, list |-> <<>>]
List(l) == [isNull |-> FALSE, list |-> l]

(***************************************************************************)
(* The DOM.  A node is a record                                            *)
(*   kind    "document" | "shadow" | "element"                             *)
(*   parent  parentNode for an element; the iframe element for an embedded *)
(*           document; the host for a shadow root; NoNode for the top      *)
(*           document                                                      *)
(*   tag     lower-case tag name of an element, "" otherwise               *)
(*   id      the id attribute, "" when absent                              *)
(*   cls     the set of class names (className split on white space)       *)
(*   ce      the contenteditable attribute is set                          *)
(*   access  of an iframe: "same" (same origin), "throws" (reading         *)
(*           contentDocument raises SecurityError) or "null" (reading      *)
(*           contentDocument gives null); "" otherwise.  Both cross-origin *)
(*           outcomes exist in browsers; the frame's document is there in  *)
(*           either case, the script just cannot reach it.                 *)
(* Children are ordered by node number (appendChild order).  Nodes 1, 2, 3 *)
(* are the top document, its <html> and its <body>.  Inputs are text       *)
(* inputs; a contenteditable element has no light-DOM element children, so *)
(* isContentEditable is the attribute.                                     *)
(***************************************************************************)
Node(kind, parent, tag, id, cls, ce, access) ==
    [kind |-> kind, parent |-> parent, tag |-> tag, id |-> id, cls |-> cls,
     ce |-> ce, access |-> access]

DocNode(owner) == Node("document", owner, "", "", {}, FALSE, "")
ShadowNode(host) == Node("shadow", host, "", "", {}, FALSE, "")
Elem(parent, tag) == Node("element", parent, tag, "", {}, FALSE, "")

TopDocument == 1
EmptyPage == <<DocNode(NoNode), Elem(1, "html"), Elem(2, "body")>>

Nodes(d) == 1..Len(d)
IsElement(d, n) == d[n].kind = "element"

\* node.childNodes (element children; text nodes carry nothing a scan reads)
childNodes(d, n) ==
    SelectSeq([i \in 1..Len(d) |-> i],
              LAMBDA m : d[m].parent = n /\ d[m].kind = "element")

\* el.parentElement: null (NoNode) when the parent is a document or shadow root
parentElement(d, n) ==
    IF d[n].parent # NoNode /\ d[d[n].parent].kind = "element"
    THEN d[n].parent ELSE NoNode

\* el.shadowRoot (open mode), NoNode when the element hosts none
shadowRoot(d, el) ==
    LET s == {m \in Nodes(d) : d[m].kind = "shadow" /\ d[m].parent = el}
    IN IF s = {} THEN NoNode ELSE CHOOSE m \in s : TRUE

\* the document an iframe element embeds, whether or not the script may read it
frameDocument(d, f) ==
    LET s == {m \in Nodes(d) : d[m].kind = "document" /\ d[m].parent = f}
    IN IF s = {} THEN NoNode ELSE CHOOSE m \in s : TRUE

\* reading iframe.contentDocument raises
AccessThrows(d, f) == d[f].access = "throws"

\* the value of iframe.contentDocument when reading it does not raise
contentDocument(d, f) ==
    IF d[f].access = "same" THEN frameDocument(d, f) ELSE NoNode

\* el.isContentEditable
isContentEditable(d, el) == d[el].ce

\* the root (document or shadow root) of the tree a node is in
RECURSIVE RootOf(_, _)
RootOf(d, n) ==
    IF d[n].kind # "element" \/ d[n].parent = NoNode THEN n
    ELSE RootOf(d, d[n].parent)

\* the element descendants of the head of a work list, in document order
RECURSIVE PreorderFrom(_, _)
PreorderFrom(d, todo) ==
    IF todo = <<>> THEN <<>>
    ELSE <<Head(todo)>> \o PreorderFrom(d, childNodes(d, Head(todo)) \o Tail(todo))

descendants(d, root) == PreorderFrom(d, childNodes(d, root))

Range(s) == {s[i] : i \in 1..Len(s)}

\* position of x in s, 0 when absent (Array.indexOf + 1)
IndexOf(s, x) ==
    IF x \in Range(s) THEN CHOOSE i \in 1..Len(s) : s[i] = x ELSE 0

\* the children of el's parent that carry el's tag name
sameTagSiblings(d, el) ==
    SelectSeq(childNodes(d, d[el].parent), LAMBDA m : d[m].tag = d[el].tag)

(***************************************************************************)
(* DOM mutations page scripts perform.                                      *)
(***************************************************************************)
\* elements other than the <html>/<body> skeleton of a document
AddedElems(d) == {n \in Nodes(d) : IsElement(d, n) /\ d[n].tag \notin {"html", "body"}}
ShadowRoots(d) == {n \in Nodes(d) : d[n].kind = "shadow"}

\* nodes that take element children
Containers(d) ==
    {n \in Nodes(d) :
        \/ d[n].kind = "shadow"
        \/ IsElement(d, n) /\ d[n].tag \in {"body", "div"} /\ ~d[n].ce}

\* parent.appendChild(el); a new iframe comes with its document, <html>, <body>
appendChild(d, p, tag, id, cls, ce, access) ==
    LET n == Len(d) + 1
        el == Node("element", p, tag, id, cls, ce, access)
    IN IF tag = "iframe"
       THEN d \o <<el, DocNode(n), Elem(n + 1, "html"), Elem(n + 2, "body")>>
       ELSE Append(d, el)

\* host.attachShadow({mode: 'open'})
attachShadow(d, host) == Append(d, ShadowNode(host))

(***************************************************************************)
(* Selectors.  A compound selector (fragment) is a record                  *)
(*   tag, id, cls, nth                                                     *)
(* standing for  tag#id.c1.c2:nth-of-type(nth)  with "" / {} / 0 for an    *)
(* absent part; a selector string is the sequence of its fragments joined  *)
(* by the child combinator " > ".  The empty string is <<>>.               *)
(***************************************************************************)
Frag(tag, id, cls, nth) == [tag |-> tag, id |-> id, cls |-> cls, nth |-> nth]
IdSelector(id) == <<Frag("", id, {}, 0)>>

\* does element el match one compound selector
MatchesFrag(d, el, f) ==
    /\ f.tag = "" \/ d[el].tag = f.tag
    /\ f.id = "" \/ d[el].id = f.id
    /\ f.cls \subseteq d[el].cls
    /\ f.nth = 0 \/ IndexOf(sameTagSiblings(d, el), el) = f.nth

\* does el match the first i fragments of sel, the i-th on el itself
RECURSIVE MatchesSel(_, _, _, _)
MatchesSel(d, el, sel, i) ==
    /\ MatchesFrag(d, el, sel[i])
    /\ \/ i = 1
       \/ /\ parentElement(d, el) # NoNode
          /\ MatchesSel(d, parentElement(d, el), sel, i - 1)

\* root.querySelectorAll(sel) for a non-empty selector, in document order
querySelectorAll(d, root, sel) ==
    SelectSeq(descendants(d, root), LAMBDA e : MatchesSel(d, e, sel, Len(sel)))

(***************************************************************************)
(* contentscript.ts: selector synthesis and scanDOM.                       *)
(***************************************************************************)
DefaultOptions ==
    [includeShadowDom |-> TRUE, maxDepth |-> DefaultMaxDepth, iframeTraversal |-> TRUE]

\* isSameOriginIframe without its try/catch: the read is not guarded
isSameOriginIframeUnguarded(d, iframe) == TRUE

\* contentscript.ts:19-26.  The catch turns the SecurityError into false.
isSameOriginIframe(d, iframe) == ~AccessThrows(d, iframe)

\* the while loop of uniqueSelector (contentscript.ts:39-71); paths is the
\* list built so far, element is never the root (the root is no element)
RECURSIVE uniqueSelectorLoop(_, _, _, _)
uniqueSelectorLoop(d, root, element, paths) ==
    LET tag == d[element].tag
        withClass == Frag(tag, "", d[element].cls, 0)
        parent == parentElement(d, element)
        siblings == sameTagSiblings(d, element)
        selector ==
            IF Len(siblings) > 1
            THEN Frag(tag, "", d[element].cls, IndexOf(siblings, element))
            ELSE withClass
    IN IF d[element].cls # {} /\ Len(querySelectorAll(d, root, <<withClass>>)) = 1
       THEN <<withClass>> \o paths
       ELSE IF parent = NoNode THEN paths
       ELSE uniqueSelectorLoop(d, root, parent, <<selector>> \o paths)

\* uniqueSelector without the id shortcut of lines 33-35
uniqueSelectorNoIdShortcut(d, el, root) == uniqueSelectorLoop(d, root, el, <<>>)

\* contentscript.ts:32-73
uniqueSelector(d, el, root) ==
    IF d[el].id # "" /\ Len(querySelectorAll(d, root, IdSelector(d[el].id))) = 1
    THEN IdSelector(d[el].id)
    ELSE uniqueSelectorLoop(d, root, el, <<>>)

\* the test of contentscript.ts:157-162
isField(d, el) ==
    \/ d[el].tag \in {"input", "select", "textarea"}
    \/ isContentEditable(d, el)

\* One FieldInfo (contentscript.ts:168-174).  selector is the deep selector:
\* the list of parts that ' >>> ' joins.  el, root and local are not part
\* of the message; they record which element the entry was captured from.
FieldInfo(d, el, root, pathParts, selector) ==
    [selector |-> pathParts \o <<selector>>, tag |-> d[el].tag,
     el |-> el, root |-> root, local |-> selector]

\* visited.has(node) (contentscript.ts:152)
visitedHas(st, node) == node \in st.visited

NewScan == [visited |-> {}, results |-> <<>>, crossed |-> <<>>, threw |-> FALSE]

\* contentscript.ts:146-208.  st carries visited and results; threw is set
\* when an exception leaves a call, and every later step is then skipped.
RECURSIVE traverse(_, _, _, _, _, _, _)
RECURSIVE traverseChildren(_, _, _, _, _, _, _)
traverse(d, cfg, node, depth, rootForSelector, pathParts, st) ==
    IF st.threw THEN st
    ELSE IF depth > cfg.maxDepth \/ visitedHas(st, node) THEN st
    ELSE
      LET st1 == [st EXCEPT !.visited = @ \cup {node}]
          isEl == IsElement(d, node)
          st2 == IF isEl /\ isField(d, node)
                 THEN [st1 EXCEPT !.results =
                         Append(@, FieldInfo(d, node, rootForSelector, pathParts,
                                             uniqueSelector(d, node, rootForSelector)))]
                 ELSE st1
          sr == shadowRoot(d, node)
          hostSelector == uniqueSelector(d, node, rootForSelector)
          st3 == IF isEl /\ cfg.includeShadowDom /\ sr # NoNode
                 THEN traverse(d, cfg, sr, depth + 1, sr,
                               Append(pathParts, hostSelector),
                               [st2 EXCEPT !.crossed = Append(@,
                                  [el |-> node, root |-> rootForSelector,
                                   sel |-> hostSelector])])
                 ELSE st2
          doc == contentDocument(d, node)
          st4 == IF isEl /\ cfg.iframeTraversal /\ d[node].tag = "iframe"
                 THEN IF ~isSameOriginIframe(d, node) THEN st3
                      ELSE IF AccessThrows(d, node)
                      THEN [st3 EXCEPT !.threw = TRUE]
                      ELSE IF doc = NoNode THEN st3
                      ELSE traverse(d, cfg, doc, depth + 1, doc,
                                    Append(pathParts, hostSelector),
                                    [st3 EXCEPT !.crossed = Append(@,
                                       [el |-> node, root |-> rootForSelector,
                                        sel |-> hostSelector])])
                 ELSE st3
      IN traverseChildren(d, cfg, childNodes(d, node), depth + 1,
                          rootForSelector, pathParts, st4)
traverseChildren(d, cfg, kids, depth, rootForSelector, pathParts, st) ==
    IF kids = <<>> THEN st
    ELSE traverseChildren(d, cfg, Tail(kids), depth, rootForSelector, pathParts,
            traverse(d, cfg, Head(kids), depth, rootForSelector, pathParts, st))

\* contentscript.ts:141-210: the traversal of one scanDOM call
scanDOMTraversal(d, options) ==
    traverse(d, options, TopDocument, 0, TopDocument, <<>>, NewScan)

\* a scanDOM whose visited set outlives the call
scanStateKept(prev) == [NewScan EXCEPT !.visited = prev.visited]

\* the working state of a scanDOM call that follows an earlier call:
\* visited and results are created by each call (contentscript.ts:143-144)
scanStateAfter(prev) == NewScan

\* the traversal of a scanDOM call made after the call that left prev
scanDOMTraversalAfter(d, options, prev) ==
    traverse(d, options, TopDocument, 0, TopDocument, <<>>, scanStateAfter(prev))

(***************************************************************************)
(* contentscript.ts: queryDeepAll.  A deep selector is the list of the     *)
(* pieces that the delimiter '>>>' separates, each a selector string; a    *)
(* piece that is empty or white space is <<>>.                             *)
(***************************************************************************)
\* contentscript.ts:100-103: split, trim, filter(Boolean)
QD_parts(deepSelector) == SelectSeq(deepSelector, LAMBDA part : part # <<>>)

\* nextContexts.push(x) that puts x in front
QD_pushFront(list, x) == <<x>> \o list

\* nextContexts.push(x) (contentscript.ts:115, 124)
QD_push(list, x) == Append(list, x)

\* nextRoot that takes any matched element as the next context
QD_nextRootAny(d, match) == [root |-> match, threw |-> FALSE]

\* nextRoot of contentscript.ts:117-122: the document of a same-origin
\* iframe, else the shadow root, else null (NoNode)
QD_nextRoot(d, match) ==
    IF d[match].tag = "iframe" /\ isSameOriginIframe(d, match)
    THEN IF AccessThrows(d, match) THEN [root |-> NoNode, threw |-> TRUE]
         ELSE IF contentDocument(d, match) # NoNode
         THEN [root |-> contentDocument(d, match), threw |-> FALSE]
         ELSE [root |-> shadowRoot(d, match), threw |-> FALSE]
    ELSE [root |-> shadowRoot(d, match), threw |-> FALSE]

\* matches.forEach (contentscript.ts:113-127); st = [next, threw]
RECURSIVE QD_matches(_, _, _, _)
QD_matches(d, matches, isLast, st) ==
    IF matches = <<>> \/ st.threw THEN st
    ELSE LET match == Head(matches)
             nextRoot == QD_nextRoot(d, match)
         IN QD_matches(d, Tail(matches), isLast,
              IF isLast THEN [st EXCEPT !.next = QD_push(@, match)]
              ELSE IF nextRoot.threw THEN [st EXCEPT !.threw = TRUE]
              ELSE IF nextRoot.root # NoNode
              THEN [st EXCEPT !.next = QD_push(@, nextRoot.root)]
              ELSE st)

\* currentContexts.forEach (contentscript.ts:111-128)
RECURSIVE QD_contexts(_, _, _, _, _)
QD_contexts(d, contexts, part, isLast, st) ==
    IF contexts = <<>> \/ st.threw THEN st
    ELSE QD_contexts(d, Tail(contexts), part, isLast,
           QD_matches(d, querySelectorAll(d, Head(contexts), part), isLast, st))

\* the for loop of contentscript.ts:107-136 from part i on
RECURSIVE QD_loop(_, _, _, _)
QD_loop(d, parts, i, currentContexts) ==
    IF i > Len(parts) THEN [els |-> <<>>, threw |-> FALSE]
    ELSE LET isLast == i = Len(parts)
             st == QD_contexts(d, currentContexts, parts[i], isLast,
                               [next |-> <<>>, threw |-> FALSE])
         IN IF st.threw THEN [els |-> <<>>, threw |-> TRUE]
            ELSE IF st.next = <<>> THEN [els |-> <<>>, threw |-> FALSE]
            ELSE IF isLast THEN [els |-> st.next, threw |-> FALSE]
            ELSE QD_loop(d, parts, i + 1, st.next)

\* contentscript.ts:99-138: the elements returned, or an exception
queryDeepAll(d, deepSelector) ==
    IF QD_parts(deepSelector) = <<>> THEN [els |-> <<>>, threw |-> FALSE]
    ELSE QD_loop(d, QD_parts(deepSelector), 1, <<TopDocument>>)

(***************************************************************************)
(* formfiller.ts: FormFiller.scanPage.                                     *)
(***************************************************************************)
DocumentElement == 2     \* document.documentElement of the top document

\* contentscript.ts / formfiller.ts run in the top window: win.document of a
\* cross-origin child window raises SecurityError
windowDocumentThrows(d, frame) == frame # NoNode /\ d[frame].access # "same"
windowDocument(d, frame) ==
    IF frame = NoNode THEN TopDocument ELSE frameDocument(d, frame)

\* the handler of a try block: the exception stops here
Caught(st) == [st EXCEPT !.threw = FALSE]

\* _getUniqueSelector's loop without the :nth-of-type step of lines 306-314
RECURSIVE FF_getUniqueSelectorLoopNoOrdinal(_, _, _)
FF_getUniqueSelectorLoopNoOrdinal(d, node, parts) ==
    IF node = NoNode \/ node = DocumentElement THEN parts
    ELSE FF_getUniqueSelectorLoopNoOrdinal(d, parentElement(d, node),
             <<Frag(d[node].tag, "", d[node].cls, 0)>> \o parts)

\* the while loop of _getUniqueSelector (formfiller.ts:294-318)
RECURSIVE FF_getUniqueSelectorLoop(_, _, _)
FF_getUniqueSelectorLoop(d, node, parts) ==
    IF node = NoNode \/ node = DocumentElement THEN parts
    ELSE LET parent == parentElement(d, node)
             siblings == sameTagSiblings(d, node)
             nth == IF parent # NoNode /\ Len(siblings) > 1
                    THEN IndexOf(siblings, node) ELSE 0
         IN FF_getUniqueSelectorLoop(d, parent,
                <<Frag(d[node].tag, "", d[node].cls, nth)>> \o parts)

\* formfiller.ts:288-321
FF_getUniqueSelector(d, el) ==
    IF d[el].id # "" THEN IdSelector(d[el].id)
    ELSE FF_getUniqueSelectorLoop(d, el, <<>>)

\* formfiller.ts:253-264 (every input of the model is a text input)
FF_isFillable(d, el) ==
    \/ d[el].tag \in {"input", "textarea", "select"}
    \/ isContentEditable(d, el)

\* root.querySelectorAll('input, select, textarea, [contenteditable]')
FF_candidates(d, root) ==
    SelectSeq(descendants(d, root),
              LAMBDA e : d[e].tag \in {"input", "select", "textarea"} \/ d[e].ce)

\* root.querySelectorAll('iframe')
iframesOf(d, root) ==
    SelectSeq(descendants(d, root), LAMBDA e : d[e].tag = "iframe")

FrameHop(idx) == [kind |-> "frame", idx |-> idx]
HostHop(sel) == [kind |-> "host", sel |-> sel]

\* the callback of scanPage (formfiller.ts:32-41) over a list of elements
RECURSIVE FF_collect(_, _, _, _)
FF_collect(d, els, framePath, st) ==
    IF els = <<>> \/ st.threw THEN st
    ELSE FF_collect(d, Tail(els), framePath,
           IF FF_isFillable(d, Head(els))
           THEN [st EXCEPT !.mappings = Append(@,
                   [column |-> Len(st.mappings) + 1,
                    selector |-> FF_getUniqueSelector(d, Head(els)),
                    framePath |-> framePath,
                    type |-> d[Head(els)].tag,
                    el |-> Head(els)])]
           ELSE st)

\* visitRoot (formfiller.ts:187-207) and its loop over root.querySelectorAll('*')
RECURSIVE FF_visitRoot(_, _, _, _)
RECURSIVE FF_visitHosts(_, _, _, _)
FF_visitRoot(d, root, currentPath, st) ==
    IF st.threw THEN st
    ELSE Caught(FF_visitHosts(d, descendants(d, root), currentPath,
                              FF_collect(d, FF_candidates(d, root), currentPath, st)))
FF_visitHosts(d, els, currentPath, st) ==
    IF els = <<>> \/ st.threw THEN st
    ELSE FF_visitHosts(d, Tail(els), currentPath,
           IF shadowRoot(d, Head(els)) # NoNode
           THEN FF_visitRoot(d, shadowRoot(d, Head(els)),
                             Append(currentPath,
                                    HostHop(FF_getUniqueSelector(d, Head(els)))),
                             st)
           ELSE st)

\* _walkContext (formfiller.ts:182-226); frame is the iframe element whose
\* contentWindow is walked, NoNode for the top window
RECURSIVE FF_walkContext(_, _, _, _)
RECURSIVE FF_walkFrames(_, _, _, _, _)
FF_walkContext(d, frame, path, st) ==
    IF st.threw THEN st
    ELSE IF windowDocumentThrows(d, frame) THEN Caught([st EXCEPT !.threw = TRUE])
    ELSE LET doc == windowDocument(d, frame)
         IN Caught(FF_walkFrames(d, iframesOf(d, doc), 0, path,
                                 FF_visitRoot(d, doc, path, st)))
FF_walkFrames(d, frs, idx, path, st) ==
    IF frs = <<>> \/ st.threw THEN st
    ELSE FF_walkFrames(d, Tail(frs), idx + 1, path,
           Caught(FF_walkContext(d, Head(frs), Append(path, FrameHop(idx)), st)))

\* formfiller.ts:30-43
FF_scanPage(d) == FF_walkContext(d, NoNode, <<>>, [mappings |-> <<>>, threw |-> FALSE])

(***************************************************************************)
(* formfiller.ts: FormFiller._resolveElement and FormFiller.fillRow.       *)
(***************************************************************************)
\* querySelector / querySelectorAll raise SyntaxError on the empty string
selectorInvalid(sel) == sel = <<>>

\* ctx.querySelector(sel): the first match in document order, NoNode (null)
\* when nothing matches
querySelector(d, root, sel) ==
    LET all == querySelectorAll(d, root, sel)
    IN IF all = <<>> THEN NoNode ELSE Head(all)

\* the loop over map.framePath (formfiller.ts:236-248).  st is
\*   ctx       the current Document | ShadowRoot, NoNode for null
\*   win       the iframe element whose contentWindow is currentWin, NoNode
\*             for the top window
\*   returned  the `return null` of line 239 was taken
\*   threw     an exception left the function
RECURSIVE FF_followHops(_, _, _)
FF_followHops(d, hops, st) ==
    IF hops = <<>> \/ st.returned \/ st.threw THEN st
    ELSE
      LET hop == Head(hops)
          iframes == iframesOf(d, windowDocument(d, st.win))
          host == querySelector(d, st.ctx, hop.sel)
          next ==
            IF hop.kind = "frame"
            THEN IF hop.idx >= Len(iframes) THEN [st EXCEPT !.returned = TRUE]
                 ELSE IF windowDocumentThrows(d, iframes[hop.idx + 1])
                 THEN [st EXCEPT !.threw = TRUE]
                 ELSE [st EXCEPT !.win = iframes[hop.idx + 1],
                                 !.ctx = windowDocument(d, iframes[hop.idx + 1])]
            ELSE IF st.ctx = NoNode THEN st
                 ELSE IF selectorInvalid(hop.sel) THEN [st EXCEPT !.threw = TRUE]
                 ELSE [st EXCEPT !.ctx = IF host = NoNode THEN NoNode
                                         ELSE shadowRoot(d, host)]
      IN FF_followHops(d, Tail(hops), next)

\* formfiller.ts:232-251: the element (NoNode for null) or an exception
FF_resolveElement(d, map) ==
    LET st == FF_followHops(d, map.framePath,
                  [ctx |-> TopDocument, win |-> NoNode,
                   returned |-> FALSE, threw |-> FALSE])
    IN IF st.threw THEN [el |-> NoNode, threw |-> TRUE]
       ELSE IF st.returned \/ st.ctx = NoNode THEN [el |-> NoNode, threw |-> FALSE]
       ELSE IF selectorInvalid(map.selector) THEN [el |-> NoNode, threw |-> TRUE]
       ELSE [el |-> querySelector(d, st.ctx, map.selector), threw |-> FALSE]

\* the loop of fillRow (formfiller.ts:58-67) with a row that has a value for
\* every column; applied lists the elements _applyValue was called on, threw
\* says the returned promise rejected.  _applyValue changes values, not the
\* structure of the page.
RECURSIVE FF_fillRow(_, _, _)
FF_fillRow(d, mappings, st) ==
    IF mappings = <<>> \/ st.threw THEN st
    ELSE LET r == FF_resolveElement(d, Head(mappings))
         IN FF_fillRow(d, Tail(mappings),
              IF r.threw THEN [st EXCEPT !.threw = TRUE]
              ELSE IF r.el = NoNode THEN st
              ELSE [st EXCEPT !.applied = Append(@, r.el)])

(***************************************************************************)
(* part_007: scanPage / internalScanRoot.                                  *)
(***************************************************************************)
\* the while loop of buildUniqueSelector (part_007:176-200)
RECURSIVE buildUniqueSelectorLoop(_, _, _)
buildUniqueSelectorLoop(d, current, parts) ==
    IF current = NoNode THEN parts
    ELSE LET parent == parentElement(d, current)
             siblings == sameTagSiblings(d, current)
             nth == IF parent # NoNode /\ Len(siblings) > 1
                    THEN IndexOf(siblings, current) ELSE 0
         IN buildUniqueSelectorLoop(d, parent,
                <<Frag(d[current].tag, "", d[current].cls, nth)>> \o parts)

\* part_007:171-203 (root is a document or shadow root, never an element)
buildUniqueSelector(d, el, root) ==
    IF d[el].id # "" THEN IdSelector(d[el].id)
    ELSE buildUniqueSelectorLoop(d, el, <<>>)

\* root.querySelectorAll('input, textarea, select,
\*                        [contenteditable]:not([contenteditable="false"])')
SP_candidates(d, root) ==
    SelectSeq(descendants(d, root),
              LAMBDA e : d[e].tag \in {"input", "textarea", "select"} \/ d[e].ce)

\* frameId of part_007:112-115 (iframes carry no name attribute)
FrameId(d, iframe, index) ==
    IF d[iframe].id # "" THEN [kind |-> "id", id |-> d[iframe].id]
    ELSE [kind |-> "nth", n |-> index + 1]

\* a scan that never finds a shadow root in its visited set
visitedShadowRootsHasNot(st, root) == FALSE

\* task.visitedShadowRoots.has(root) (part_007:44, 75, 91)
visitedShadowRootsHas(st, root) == root \in st.visitedShadowRoots

NewPageScan ==
    [out |-> <<>>, visitedFrames |-> {}, visitedShadowRoots |-> {},
     visitedElements |-> {}, entered |-> <<>>, threw |-> FALSE]

\* internalScanRoot (part_007:39-130) and its three loops.  entered lists
\* the roots whose scan went past the guard of lines 43-46.
RECURSIVE internalScanRoot(_, _, _, _, _)
RECURSIVE SP_controls(_, _, _, _, _, _)
RECURSIVE SP_hosts(_, _, _, _, _, _)
RECURSIVE SP_iframes(_, _, _, _, _, _)
internalScanRoot(d, root, framePath, shadowPath, st) ==
    IF st.threw THEN st
    ELSE IF d[root].kind = "shadow" /\ visitedShadowRootsHas(st, root) THEN st
    ELSE
      LET st0 == [st EXCEPT
                    !.visitedShadowRoots =
                        IF d[root].kind = "shadow" THEN @ \cup {root} ELSE @,
                    !.entered = Append(@, root)]
          st1 == SP_controls(d, SP_candidates(d, root), root, framePath, shadowPath, st0)
          st2 == SP_hosts(d, descendants(d, root), root, framePath, shadowPath, st1)
      IN SP_iframes(d, iframesOf(d, root), 0, framePath, root, st2)
SP_controls(d, els, root, framePath, shadowPath, st) ==
    IF els = <<>> \/ st.threw THEN st
    ELSE
      LET el == Head(els)
          selector == buildUniqueSelector(d, el, root)
          descriptor == [tag |-> d[el].tag, id |-> d[el].id, selector |-> selector,
                         framePath |-> framePath, shadowPath |-> shadowPath,
                         elementRef |-> el]
          st1 == [st EXCEPT !.visitedElements = @ \cup {el},
                            !.out = Append(@, descriptor)]
          hostShadow == shadowRoot(d, el)
          st2 == IF hostShadow # NoNode /\ ~visitedShadowRootsHas(st1, hostShadow)
                 THEN internalScanRoot(d, hostShadow, framePath,
                                       Append(shadowPath, selector), st1)
                 ELSE st1
      IN SP_controls(d, Tail(els), root, framePath, shadowPath,
                     IF el \in st.visitedElements THEN st ELSE st2)
SP_hosts(d, els, root, framePath, shadowPath, st) ==
    IF els = <<>> \/ st.threw THEN st
    ELSE
      LET host == Head(els)
          sr == shadowRoot(d, host)
      IN SP_hosts(d, Tail(els), root, framePath, shadowPath,
                  IF sr # NoNode /\ ~visitedShadowRootsHas(st, sr)
                  THEN internalScanRoot(d, sr, framePath,
                          Append(shadowPath, buildUniqueSelector(d, host, root)), st)
                  ELSE st)
SP_iframes(d, frs, index, framePath, root, st) ==
    IF frs = <<>> \/ st.threw THEN st
    ELSE
      LET iframe == Head(frs)
          doc == contentDocument(d, iframe)
          inner ==
            IF AccessThrows(d, iframe) THEN [st EXCEPT !.threw = TRUE]
            ELSE IF doc = NoNode \/ doc \in st.visitedFrames THEN st
            ELSE internalScanRoot(d, doc,
                    Append(framePath, FrameId(d, iframe, index)), <<>>,
                    [st EXCEPT !.visitedFrames = @ \cup {doc}])
      IN SP_iframes(d, Tail(frs), index + 1, framePath, root, Caught(inner))

\* part_007:1-21
scanPage(d) == Caught(internalScanRoot(d, TopDocument, <<>>, <<>>, NewPageScan))

(***************************************************************************)
(* Labels (contentscript.ts:75-91, part_007:136-164).  A <label> element   *)
(* carries one more field, for: its for attribute, "" when absent.  The    *)
(* text of a label is never empty and names the label, so a label text is  *)
(* given as the label's node, NoNode standing for undefined / null.        *)
(***************************************************************************)
Label(parent, for) ==
    Node("element", parent, "label", "", {}, FALSE, "") @@ [for |-> for]

IsLabel(d, n) == IsElement(d, n) /\ d[n].tag = "label"

\* root.querySelector('label[for="id"]'): the first match in document order
labelFor(d, root, id) ==
    LET found == SelectSeq(descendants(d, root),
                           LAMBDA n : IsLabel(d, n) /\ d[n].for = id)
    IN IF found = <<>> THEN NoNode ELSE Head(found)

\* el.previousElementSibling
previousElementSibling(d, el) ==
    LET kids == childNodes(d, d[el].parent)
        i == IndexOf(kids, el)
    IN IF i > 1 THEN kids[i - 1] ELSE NoNode

\* el.ownerDocument: the document of el's tree, through shadow roots
RECURSIVE ownerDocument(_, _)
ownerDocument(d, n) ==
    LET root == RootOf(d, n)
    IN IF d[root].kind = "document" THEN root
       ELSE ownerDocument(d, d[root].parent)

\* extractLabelText (contentscript.ts:75-91); every element with an id of the
\* model is an input, select or textarea
extractLabelText(d, el) ==
    LET l == IF d[el].tag \in {"input", "select", "textarea"} /\ d[el].id # ""
             THEN labelFor(d, TopDocument, d[el].id) ELSE NoNode
        prev == previousElementSibling(d, el)
    IN IF l # NoNode THEN l
       ELSE IF prev # NoNode /\ d[prev].tag = "label" THEN prev
       ELSE NoNode

\* the ancestor loop of resolveLabelText (part_007:148-155)
RECURSIVE enclosingLabel(_, _)
enclosingLabel(d, parent) ==
    IF parent = NoNode THEN NoNode
    ELSE IF d[parent].tag = "label" THEN parent
    ELSE enclosingLabel(d, parentElement(d, parent))

\* resolveLabelText (part_007:136-164)
resolveLabelText(d, el) ==
    LET lab == IF d[el].id # "" THEN labelFor(d, ownerDocument(d, el), d[el].id)
               ELSE NoNode
    IN IF lab # NoNode THEN lab
       ELSE enclosingLabel(d, parentElement(d, el))

(***************************************************************************)
(* FormFillerRunner (src/unnamed/part_006:17-232).                         *)
(*                                                                         *)
(* run() is an async method: it gives up the thread at every await, and    *)
(* abort() can be called only there.  runner.pc names the await run() is   *)
(* suspended at ("launch", "pageClose", "newPage", "goto", "loadState",    *)
(* "waitForSelector", "query", "act", "capture", "writeBack", "dispose")   *)
(* or the statement its continuation resumes at ("loop", "navigate",       *)
(* "field"); the continuation runs to the next await in one step.          *)
(***************************************************************************)
MaxRows == 2         \* rows handed to the runner
MaxKeys == 2         \* keys of the field mapping
MaxGotoTries == 2    \* navigationTimeoutMs / step: goto attempts per row

RowError == 0        \* the message of an error caught by run(), line 62

NoRowResult == [returned |-> FALSE, success |-> FALSE, errors |-> <<>>]

\* new FormFillerRunner(options, rows, mapping) (part_006:24-36)
RunnerNew ==
    [pc |-> "new", aborted |-> FALSE, fresh |-> FALSE, browser |-> FALSE,
     page |-> FALSE, row |-> 0, url |-> "other", tries |-> 0, key |-> 0,
     errors |-> <<>>,
     fillRowResult |-> NoRowResult,   \* what the last fillRow call returned
     result |-> NoRowResult,          \* the result run() holds for the row
     rowDone |-> <<>>,                \* the 'row-done' events emitted
     \* history, read by the properties only
     attempted |-> <<>>,     \* keys whose fill was started in this row
     failed |-> <<>>,        \* keys whose fill threw in this row
     lateStarts |-> 0,       \* rows, navigations, fills started after abort()
     abortedAt |-> "none",   \* the await abort() arrived at
     stepsSinceAbort |-> 0]  \* awaits that settled after abort()

\* the awaits of run(), navigate() and fillRow()
AwaitPcs ==
    {"launch", "pageClose", "newPage", "goto", "loadState", "waitForSelector",
     "query", "act", "capture", "writeBack", "dispose"}

\* the awaits inside one field fill (part_006:97-121)
FieldPcs == {"waitForSelector", "query", "act"}

\* a started row, navigation or field fill counts as late after abort()
Started(r, pc) ==
    [r EXCEPT !.pc = pc,
              !.lateStarts = IF r.aborted /\ @ < 1 THEN @ + 1 ELSE @]

\* an await settles: one more step taken after abort()
Settled(r) ==
    [r EXCEPT !.stepsSinceAbort = IF r.aborted /\ @ < 1 THEN @ + 1 ELSE @]

\* ensureNotAborted that never throws
ensureNotAbortedIgnored(r) == FALSE

\* ensureNotAborted (part_006:83-85): does it throw?
ensureNotAborted(r) == r.aborted

\* the finally block of run() (part_006:75-77)
EnterFinally(r) == [r EXCEPT !.pc = "dispose"]

\* the result of a row is in hand (part_006:54-60 and 61-72): artifacts are
\* captured and the result is written back unless abort() was called
RowResult(r, result) ==
    [r EXCEPT !.result = result, !.pc = IF r.aborted THEN "loop" ELSE "capture"]

\* the catch block of run()'s row (part_006:61-72)
RowCatch(r) ==
    RowResult(r, [returned |-> FALSE, success |-> FALSE, errors |-> <<RowError>>])

\* the catch block of a field that records nothing
fillRowCatchDropped(errors, key) == errors

\* the catch block of a field (part_006:122-126)
fillRowCatch(errors, key) == Append(errors, key)

\* the return statement of fillRow (part_006:128-131)
fillRowReturn(errors) ==
    [returned |-> TRUE, success |-> Len(errors) = 0, errors |-> errors]

\* a field threw: the error is recorded and the loop goes on
FieldFailed(r) ==
    [r EXCEPT !.errors = fillRowCatch(@, r.key),
              !.failed = Append(@, r.key),
              !.pc = "field"]

\* the while loop of navigate() and the statement after it
\* (part_006:213-225)
GotoLoop(r) ==
    IF ~r.aborted THEN Started(r, "goto")
    ELSE IF ensureNotAborted(r) THEN RowCatch(r)
    ELSE [r EXCEPT !.pc = "loadState"]

\* new FormFillerRunner(...).run() is called (part_006:38-41)
Run ==
    /\ runner.pc = "new"
    /\ \E freshPagePerRow \in BOOLEAN :
         runner' = [runner EXCEPT !.pc = "launch", !.fresh = freshPagePerRow]
    /\ UNCHANGED <<domVars, scanVars, monitorVars, fill, pool, bg, typing>>

\* chromium.launch settles (part_006:41)
Launched ==
    /\ runner.pc = "launch"
    /\ \E ok \in BOOLEAN :
         runner' = IF ok THEN [Settled(runner) EXCEPT !.browser = TRUE, !.pc = "loop"]
                   ELSE EnterFinally(Settled(runner))
    /\ UNCHANGED <<domVars, scanVars, monitorVars, fill, pool, bg, typing>>

\* the head of the row loop up to its first await (part_006:44-53); a
\* 'row-start' listener may call abort()
LoopHead ==
    /\ runner.pc = "loop"
    /\ IF runner.row = MaxRows \/ runner.aborted
       THEN runner' = EnterFinally(runner)
       ELSE \E listenerAborts \in BOOLEAN, url \in {"missing", "same", "other"} :
              /\ url = "same" => runner.page /\ ~runner.fresh
              /\ LET r == [Started(runner, "loop") EXCEPT
                              !.row = @ + 1, !.url = url, !.tries = 0, !.key = 0,
                              !.errors = <<>>, !.attempted = <<>>, !.failed = <<>>,
                              !.fillRowResult = NoRowResult, !.result = NoRowResult,
                              !.aborted = listenerAborts,
                              !.abortedAt = IF listenerAborts THEN "row-start" ELSE @]
                 IN runner' = IF r.fresh \/ ~r.page
                              THEN [r EXCEPT !.pc = IF r.page THEN "pageClose"
                                                    ELSE "newPage"]
                              ELSE [r EXCEPT !.pc = "navigate"]
    /\ UNCHANGED <<domVars, scanVars, monitorVars, fill, pool, bg, typing>>

\* page.close() settles (part_006:50)
PageClosed ==
    /\ runner.pc = "pageClose"
    /\ \E ok \in BOOLEAN :
         runner' = IF ok THEN [Settled(runner) EXCEPT !.page = FALSE, !.pc = "newPage"]
                   ELSE RowCatch(Settled(runner))
    /\ UNCHANGED <<domVars, scanVars, monitorVars, fill, pool, bg, typing>>

\* browser.newPage() settles (part_006:51)
PageCreated ==
    /\ runner.pc = "newPage"
    /\ \E ok \in BOOLEAN :
         runner' = IF ok THEN [Settled(runner) EXCEPT !.page = TRUE, !.pc = "navigate"]
                   ELSE RowCatch(Settled(runner))
    /\ UNCHANGED <<domVars, scanVars, monitorVars, fill, pool, bg, typing>>

\* navigate(row) up to its first await (part_006:201-216)
Navigate ==
    /\ runner.pc = "navigate"
    /\ runner' = IF ensureNotAborted(runner) THEN RowCatch(runner)
                 ELSE IF runner.url = "missing" THEN RowCatch(runner)
                 ELSE IF runner.url = "same" THEN [runner EXCEPT !.pc = "field"]
                 ELSE GotoLoop(runner)
    /\ UNCHANGED <<domVars, scanVars, monitorVars, fill, pool, bg, typing>>

\* page.goto settles (part_006:215-225)
GotoSettles ==
    /\ runner.pc = "goto"
    /\ \E ok \in BOOLEAN :
         LET r == Settled(runner) IN
         runner' = IF ok
                   THEN IF ensureNotAborted(r) THEN RowCatch(r)
                        ELSE [r EXCEPT !.pc = "loadState"]
                   ELSE IF r.tries + 1 >= MaxGotoTries THEN RowCatch(r)
                        ELSE GotoLoop([r EXCEPT !.tries = @ + 1])
    /\ UNCHANGED <<domVars, scanVars, monitorVars, fill, pool, bg, typing>>

\* page.waitForLoadState settles (part_006:225)
LoadStateSettles ==
    /\ runner.pc = "loadState"
    /\ \E ok \in BOOLEAN :
         runner' = IF ok THEN [Settled(runner) EXCEPT !.pc = "field"]
                   ELSE RowCatch(Settled(runner))
    /\ UNCHANGED <<domVars, scanVars, monitorVars, fill, pool, bg, typing>>

\* the head of fillRow's loop up to its first await, or its return
\* (part_006:88-97, 128-131)
FieldHead ==
    /\ runner.pc = "field"
    /\ runner' =
         IF runner.key = MaxKeys
         THEN LET result == fillRowReturn(runner.errors)
              IN RowResult([runner EXCEPT !.fillRowResult = result], result)
         ELSE IF ensureNotAborted(runner) THEN RowCatch(runner)
         ELSE [Started(runner, "waitForSelector") EXCEPT
                  !.key = @ + 1, !.attempted = Append(@, runner.key + 1)]
    /\ UNCHANGED <<domVars, scanVars, monitorVars, fill, pool, bg, typing>>

\* page.waitForSelector settles (part_006:97)
WaitForSelectorSettles ==
    /\ runner.pc = "waitForSelector"
    /\ \E ok \in BOOLEAN :
         runner' = IF ok THEN [Settled(runner) EXCEPT !.pc = "query"]
                   ELSE FieldFailed(Settled(runner))
    /\ UNCHANGED <<domVars, scanVars, monitorVars, fill, pool, bg, typing>>

\* page.$ settles; no element is an error (part_006:98-99)
QuerySettles ==
    /\ runner.pc = "query"
    /\ \E found \in BOOLEAN :
         runner' = IF found THEN [Settled(runner) EXCEPT !.pc = "act"]
                   ELSE FieldFailed(Settled(runner))
    /\ UNCHANGED <<domVars, scanVars, monitorVars, fill, pool, bg, typing>>

\* the click, selectOption or fill of the field settles (part_006:101-121)
ActSettles ==
    /\ runner.pc = "act"
    /\ \E ok \in BOOLEAN :
         runner' = IF ok THEN [Settled(runner) EXCEPT !.pc = "field"]
                   ELSE FieldFailed(Settled(runner))
    /\ UNCHANGED <<domVars, scanVars, monitorVars, fill, pool, bg, typing>>

\* captureArtifacts settles; it swallows its errors (part_006:134-165)
CaptureSettles ==
    /\ runner.pc = "capture"
    /\ runner' = [Settled(runner) EXCEPT !.pc = "writeBack"]
    /\ UNCHANGED <<domVars, scanVars, monitorVars, fill, pool, bg, typing>>

\* writeBackResult settles (part_006:168-182) and 'row-done' is emitted
WriteBackSettles ==
    /\ runner.pc = "writeBack"
    /\ runner' = [Settled(runner) EXCEPT
                     !.rowDone = Append(@, [row |-> runner.row,
                                            success |-> runner.result.success,
                                            errors |-> runner.result.errors]),
                     !.pc = "loop"]
    /\ UNCHANGED <<domVars, scanVars, monitorVars, fill, pool, bg, typing>>

\* dispose() settles and run() returns (part_006:75-77, 191-198)
Disposed ==
    /\ runner.pc = "dispose"
    /\ runner' = [Settled(runner) EXCEPT !.pc = "done", !.page = FALSE,
                                         !.browser = FALSE]
    /\ UNCHANGED <<domVars, scanVars, monitorVars, fill, pool, bg, typing>>

\* abort() (part_006:185-188), called while run() is suspended or before
\* it is called
Abort ==
    /\ runner.pc \in AwaitPcs \cup {"new"}
    /\ ~runner.aborted
    /\ runner' = [runner EXCEPT !.aborted = TRUE, !.abortedAt = runner.pc]
    /\ UNCHANGED <<domVars, scanVars, monitorVars, fill, pool, bg, typing>>

(***************************************************************************)
(* BrowserPool (src/unnamed/part_002).  pool is                            *)
(*   pc            "none" | "prewarm" (the loop of createPool, lines       *)
(*                 56-58) | "prewarmWait" (line 59) | "ready"              *)
(*   size, all, idle, queue, shuttingDown      the fields of lines 32-37   *)
(*   connected     the browsers whose isConnected() is true                *)
(*   inflight      launchAndStore calls awaiting puppeteer.launch: the     *)
(*                 browser, and who takes it ("acquire" c, "prewarm",      *)
(*                 "replace": the 'disconnected' handler)                  *)
(*   calls         the acquire() calls, in call order                      *)
(*   leased        browsers an acquire() resolved with, not yet released   *)
(*   double        history: an acquire() resolved with a browser that was  *)
(*                 leased                                                  *)
(*   closing       browsers whose close() is in flight; awaited: those     *)
(*                 shutdown() waits for (line 148)                         *)
(*   shutdown      "none" | "closing" | "resolved"                         *)
(* A browser is the number of the launch that made it.                     *)
(***************************************************************************)
MaxPoolSize == 2     \* largest size given to createPool
MaxLaunches == 3     \* puppeteer.launch calls
MaxAcquires == 3     \* acquire() calls

\* new BrowserPool(size, opts) (part_002:39-45, 53)
NewPool(size, prewarm) ==
    [pc |-> IF prewarm THEN "prewarm" ELSE "ready", prewarm |-> prewarm,
     size |-> size, all |-> {}, idle |-> <<>>, queue |-> <<>>,
     shuttingDown |-> FALSE, connected |-> {}, inflight |-> {},
     launched |-> 0, calls |-> <<>>, leased |-> {}, closing |-> {},
     awaited |-> {}, shutdown |-> "none", double |-> FALSE]

Without(s, x) == SelectSeq(s, LAMBDA y : y # x)

\* launchAndStore up to its await (part_002:170-171)
launchAndStore(p, cont, who) ==
    [p EXCEPT !.launched = @ + 1,
              !.inflight = @ \cup {[b |-> p.launched + 1, cont |-> cont,
                                    who |-> who]}]

\* an acquire() call settles
Resolve(p, c, b) ==
    [p EXCEPT !.calls[c] = [@ EXCEPT !.st = "resolved", !.b = b,
                                     !.late = p.shutdown = "resolved"],
              !.leased = @ \cup {b},
              !.double = @ \/ b \in p.leased]
Reject(p, c) == [p EXCEPT !.calls[c].st = "rejected"]

\* acquire() that hands out the last idle browser and leaves it in idle
acquireIdleKept(p, c) ==
    IF p.shuttingDown THEN Reject(p, c)
    ELSE IF Len(p.idle) > 0 THEN Resolve(p, c, p.idle[Len(p.idle)])
    ELSE IF Cardinality(p.all) < p.size THEN launchAndStore(p, "acquire", c)
    ELSE [p EXCEPT !.queue = Append(@, c), !.calls[c].st = "queued"]

\* acquire() (part_002:71-94) for the call c; a browser in idle is
\* connected, the 'disconnected' handler having removed the others
acquire(p, c) ==
    IF p.shuttingDown THEN Reject(p, c)
    ELSE IF Len(p.idle) > 0
    THEN Resolve([p EXCEPT !.idle = SubSeq(@, 1, Len(@) - 1)], c,
                 p.idle[Len(p.idle)])
    ELSE IF Cardinality(p.all) < p.size THEN launchAndStore(p, "acquire", c)
    ELSE [p EXCEPT !.queue = Append(@, c), !.calls[c].st = "queued"]

\* the loop that rejects the waiters (part_002:138-141)
RECURSIVE rejectAll(_)
rejectAll(p) ==
    IF p.queue = <<>> THEN p
    ELSE rejectAll(Reject([p EXCEPT !.queue = Tail(@)], Head(p.queue)))

\* the statements after await Promise.allSettled (part_002:149-151)
shutdownClean(p) ==
    [p EXCEPT !.all = {}, !.idle = <<>>, !.shutdown = "resolved"]

\* shutdown() up to its await (part_002:133-148)
shutdown(p) ==
    LET q == [rejectAll([p EXCEPT !.shuttingDown = TRUE]) EXCEPT
                 !.closing = @ \cup p.all, !.awaited = p.all,
                 !.shutdown = "closing"]
    IN IF q.awaited = {} THEN shutdownClean(q) ELSE q

\* the 'disconnected' handler of a browser (part_002:174-195)
onDisconnected(p, b) ==
    LET q == [p EXCEPT !.connected = @ \ {b}, !.all = @ \ {b},
                       !.idle = Without(@, b)]
    IN IF ~q.shuttingDown /\ Len(q.queue) > 0
       THEN launchAndStore(q, "replace", 0) ELSE q

\* safeClose(b) after its await (part_002:206-210); close() disconnects
safeClosed(p, b) ==
    LET q == IF b \in p.connected THEN onDisconnected(p, b) ELSE p
        r == [q EXCEPT !.all = @ \ {b}, !.idle = Without(@, b),
                       !.closing = @ \ {b}, !.awaited = @ \ {b}]
    IN IF r.shutdown = "closing" /\ r.awaited = {} THEN shutdownClean(r) ELSE r

\* release(browser) (part_002:99-128)
release(p, b) ==
    LET q == [p EXCEPT !.leased = @ \ {b}] IN
    IF b \notin q.all THEN q
    ELSE IF q.shuttingDown THEN [q EXCEPT !.closing = @ \cup {b}]
    ELSE IF b \notin q.connected
    THEN LET r == [q EXCEPT !.closing = @ \cup {b}]
         IN IF Len(r.queue) > 0
            THEN launchAndStore([r EXCEPT !.queue = Tail(@)], "acquire",
                                Head(r.queue))
            ELSE r
    ELSE IF Len(q.queue) > 0
    THEN Resolve([q EXCEPT !.queue = Tail(@)], Head(q.queue), b)
    ELSE [q EXCEPT !.idle = Append(@, b)]

\* the rest of launchAndStore and what its caller does with the browser
\* (part_002:172-197; 87; 57; 186-189; 116)
launchResolved(p, l) ==
    LET q == [p EXCEPT !.inflight = @ \ {l}, !.all = @ \cup {l.b},
                       !.connected = @ \cup {l.b}]
    IN IF l.cont = "acquire" THEN Resolve(q, l.who, l.b)
       ELSE IF l.cont = "replace"
       THEN IF Len(q.queue) > 0
            THEN Resolve([q EXCEPT !.queue = Tail(@)], Head(q.queue), l.b)
            ELSE q
       ELSE IF q.pc = "prewarmWait" /\ q.inflight = {}
       THEN [q EXCEPT !.pc = "ready"]
       ELSE q

\* puppeteer.launch rejects (part_002:171; 87; 190-193; 116)
launchFailed(p, l) ==
    LET q == [p EXCEPT !.inflight = @ \ {l}]
    IN IF l.cont = "acquire" THEN Reject(q, l.who)
       ELSE IF l.cont = "replace"
       THEN IF Len(q.queue) > 0
            THEN Reject([q EXCEPT !.queue = Tail(@)], Head(q.queue))
            ELSE q
       ELSE q

\* BrowserPool.createPool(size, opts) up to the loop (part_002:49-55)
CreatePool ==
    /\ pool.pc = "none"
    /\ \E size \in 1..MaxPoolSize, prewarm \in BOOLEAN :
         pool' = NewPool(size, prewarm)
    /\ UNCHANGED <<domVars, scanVars, monitorVars, fill, runner, bg, typing>>

\* one turn of the prewarm loop (part_002:56-59): no await, so nothing
\* else runs between two turns
PrewarmTurn ==
    /\ pool.pc = "prewarm"
    /\ pool' = IF Cardinality(pool.all) < pool.size
               THEN launchAndStore(pool, "prewarm", 0)
               ELSE [pool EXCEPT !.pc = IF pool.inflight = {} THEN "ready"
                                        ELSE "prewarmWait"]
    /\ pool'.launched <= MaxLaunches
    /\ UNCHANGED <<domVars, scanVars, monitorVars, fill, runner, bg, typing>>

PoolRuns == pool.pc \in {"prewarmWait", "ready"}

\* pool.acquire() is called
Acquire ==
    /\ pool.pc = "ready"
    /\ Len(pool.calls) < MaxAcquires
    /\ LET c == Len(pool.calls) + 1
           p == [pool EXCEPT !.calls = Append(@,
                    [st |-> "pending", b |-> 0, late |-> FALSE,
                     after |-> pool.shutdown = "resolved"])]
       IN pool' = acquire(p, c)
    /\ pool'.launched <= MaxLaunches
    /\ UNCHANGED <<domVars, scanVars, monitorVars, fill, runner, bg, typing>>

\* pool.release(b) is called by the holder of b
Release ==
    /\ pool.pc = "ready"
    /\ \E b \in pool.leased : pool' = release(pool, b)
    /\ pool'.launched <= MaxLaunches
    /\ UNCHANGED <<domVars, scanVars, monitorVars, fill, runner, bg, typing>>

\* pool.shutdown() is called; a second call returns at once (line 134)
Shutdown ==
    /\ pool.pc = "ready"
    /\ ~pool.shuttingDown
    /\ pool' = shutdown(pool)
    /\ UNCHANGED <<domVars, scanVars, monitorVars, fill, runner, bg, typing>>

\* puppeteer.launch settles
LaunchSettles ==
    /\ PoolRuns
    /\ \E l \in pool.inflight, ok \in BOOLEAN :
         pool' = IF ok THEN launchResolved(pool, l) ELSE launchFailed(pool, l)
    /\ UNCHANGED <<domVars, scanVars, monitorVars, fill, runner, bg, typing>>

\* browser.close() settles
CloseSettles ==
    /\ PoolRuns
    /\ \E b \in pool.closing : pool' = safeClosed(pool, b)
    /\ pool'.launched <= MaxLaunches
    /\ UNCHANGED <<domVars, scanVars, monitorVars, fill, runner, bg, typing>>

\* a browser crashes or is closed from outside
Disconnect ==
    /\ PoolRuns
    /\ \E b \in pool.connected \ pool.closing : pool' = onDisconnected(pool, b)
    /\ pool'.launched <= MaxLaunches
    /\ UNCHANGED <<domVars, scanVars, monitorVars, fill, runner, bg, typing>>

(***************************************************************************)
(* The background script (src/background.ts).  bg is                       *)
(*   jobs     state.jobs in storage.local: the stored JobConfigs           *)
(*   alarms   the browser's pending alarms job_<id>: [id, periodic]        *)
(*   mutex    stateMutex: [locked, waiters]; a waiter is the number of the *)
(*            call whose tryAcquire closure waits                          *)
(*   calls    the calls of scheduleJob, cancelJob, resetState and onAlarm  *)
(*            made so far: [kind, cfg, pc, read, todo]                     *)
(*   fired    alarms fired so far                                          *)
(* A JobConfig is [id, runAt, cron]: runAt is "none" (undefined), "past"   *)
(* or "future" against Date.now(); cron is "none" or [form, n], form       *)
(* "everyN" for a string the pattern of line 181 matches with n its        *)
(* number, "other" for any other string.  A call's pc names the await it   *)
(* is suspended at.                                                        *)
(***************************************************************************)
MaxCalls == 3        \* calls of scheduleJob, cancelJob, resetState, onAlarm
MaxFired == 1        \* alarms that fire

NoCron == [form |-> "none", n |-> 0]
JobConfig(id, runAt, cron) == [id |-> id, runAt |-> runAt, cron |-> cron]
NoConfig == JobConfig("", "none", NoCron)

BackgroundNew ==
    [jobs |-> {}, alarms |-> {},
     mutex |-> [locked |-> FALSE, waiters |-> <<>>, granted |-> 0],
     calls |-> <<>>, fired |-> 0,
     lost |-> FALSE]     \* history: a save overwrote a state it had not read

\* cronToMinutes without the test n >= 1
cronToMinutesAnyN(cron) ==
    IF cron.form = "everyN" THEN cron.n + 1 ELSE 0

\* cronToMinutes (background.ts:179-187); 0 stands for undefined
cronToMinutes(cron) ==
    IF cron.form = "everyN" /\ cron.n >= 1 THEN cron.n ELSE 0

\* validateJobConfig (background.ts:118-138): does it throw?
validateJobConfigThrows(cfg) ==
    LET hasFutureRunAt == cfg.runAt = "future"
        hasValidCron == cfg.cron.form # "none" /\ cronToMinutes(cfg.cron) # 0
    IN \/ cfg.id = ""
       \/ ~hasFutureRunAt /\ ~hasValidCron
       \/ cfg.runAt = "past"

\* tryAcquire that takes the lock whatever its state
mutexTryAcquireUnchecked(mx, who) ==
    [mx EXCEPT !.locked = TRUE, !.granted = who]

\* the closure tryAcquire of the call who (background.ts:26-33)
mutexTryAcquire(mx, who) ==
    IF ~mx.locked THEN [mx EXCEPT !.locked = TRUE, !.granted = who]
    ELSE [mx EXCEPT !.waiters = Append(@, who), !.granted = 0]

\* Mutex.release (background.ts:38-45)
mutexRelease(mx) ==
    IF mx.waiters # <<>>
    THEN mutexTryAcquire([mx EXCEPT !.waiters = Tail(@)], Head(mx.waiters))
    ELSE [mx EXCEPT !.locked = FALSE, !.granted = 0]

\* the first await of a call inside its critical section
FirstPc(kind) == IF kind = "reset" THEN "remove" ELSE "getState"

\* the awaits between stateMutex.acquire() resolving and release()
CriticalPcs == {"getState", "save", "clear", "remove", "getAll", "clearEach"}

\* the call the mutex has just granted the lock resumes
Granted(b) ==
    IF b.mutex.granted = 0 THEN b
    ELSE [b EXCEPT !.calls[b.mutex.granted].pc =
                       FirstPc(b.calls[b.mutex.granted].kind),
                   !.mutex.granted = 0]

\* await stateMutex.acquire() in the call i (background.ts:143, 168, 261)
Enter(b, i) ==
    Granted([b EXCEPT !.calls[i].pc = "waiting",
                      !.mutex = mutexTryAcquire(b.mutex, i)])

\* the finally block of the call i (background.ts:160-162, 174-176, 272-274)
Leave(b, i) ==
    Granted([b EXCEPT !.calls[i].pc = "done", !.mutex = mutexRelease(b.mutex)])

NewCall(kind, cfg) ==
    [kind |-> kind, cfg |-> cfg, pc |-> "called", read |-> {}, todo |-> {}]

\* state.jobs[id] = cfg / delete state.jobs[id] on the object a call read
Put(jobs, cfg) == {j \in jobs : j.id # cfg.id} \cup {cfg}
DeleteSkipped(jobs, id) == jobs
Delete(jobs, id) == {j \in jobs : j.id # id}

\* the JobConfigs a message carries
ConfigsTried ==
    { JobConfig(id, runAt, cron) :
        id \in {"", "a"},
        runAt \in {"none", "past", "future"},
        cron \in {NoCron, [form |-> "everyN", n |-> 5],
                  [form |-> "everyN", n |-> 0], [form |-> "other", n |-> 0]} }

\* message SCHEDULE_JOB: scheduleJob(payload) up to its first await
\* (background.ts:140-143)
ScheduleJob ==
    /\ Len(bg.calls) < MaxCalls
    /\ \E cfg \in ConfigsTried :
         LET i == Len(bg.calls) + 1
             b == [bg EXCEPT !.calls = Append(@, NewCall("schedule", cfg))]
         IN bg' = IF validateJobConfigThrows(cfg)
                  THEN [b EXCEPT !.calls[i].pc = "rejected"]
                  ELSE Enter(b, i)
    /\ UNCHANGED <<domVars, scanVars, monitorVars, fill, runner, pool, typing>>

\* message CANCEL_JOB: cancelJob(id) up to its first await
\* (background.ts:165-168)
CancelJob ==
    /\ Len(bg.calls) < MaxCalls
    /\ \E id \in {"", "a"} :
         LET i == Len(bg.calls) + 1
             b == [bg EXCEPT !.calls =
                      Append(@, NewCall("cancel", JobConfig(id, "none", NoCron)))]
         IN bg' = IF id = "" THEN [b EXCEPT !.calls[i].pc = "done"]
                  ELSE Enter(b, i)
    /\ UNCHANGED <<domVars, scanVars, monitorVars, fill, runner, pool, typing>>

\* message RESET_STATE or the context menu: resetState() up to its first
\* await (background.ts:260-261)
ResetState ==
    /\ Len(bg.calls) < MaxCalls
    /\ LET i == Len(bg.calls) + 1
           b == [bg EXCEPT !.calls = Append(@, NewCall("reset", NoConfig))]
       IN bg' = Enter(b, i)
    /\ UNCHANGED <<domVars, scanVars, monitorVars, fill, runner, pool, typing>>

\* an alarm fires: the browser drops it unless it is periodic, and calls
\* onAlarm, which runs up to its first await (background.ts:191-195)
AlarmFires ==
    /\ Len(bg.calls) < MaxCalls
    /\ bg.fired < MaxFired
    /\ \E a \in bg.alarms :
         bg' = [bg EXCEPT
                  !.alarms = IF a.periodic THEN @ ELSE @ \ {a},
                  !.fired = @ + 1,
                  !.calls = Append(@, [NewCall("alarm", JobConfig(a.id, "none", NoCron))
                                         EXCEPT !.pc = "a_getState"])]
    /\ UNCHANGED <<domVars, scanVars, monitorVars, fill, runner, pool, typing>>

\* getState() of onAlarm settles (background.ts:195-197)
AlarmGetStateSettles ==
    /\ \E i \in 1..Len(bg.calls) :
         LET c == bg.calls[i]
             job == {j \in bg.jobs : j.id = c.cfg.id}
         IN /\ c.kind = "alarm" /\ c.pc = "a_getState"
            /\ bg' = IF job = {} THEN [bg EXCEPT !.calls[i].pc = "done"]
                     ELSE [bg EXCEPT !.calls[i].pc = "a_tabs",
                                     !.calls[i].cfg = CHOOSE j \in job : TRUE]
    /\ UNCHANGED <<domVars, scanVars, monitorVars, fill, runner, pool, typing>>

\* chrome.tabs.query settles, the job is forwarded or the error is logged,
\* and a one-shot job is cancelled (background.ts:199-217)
AlarmTabsSettles ==
    /\ \E i \in 1..Len(bg.calls) :
         LET c == bg.calls[i]
         IN /\ c.kind = "alarm" /\ c.pc = "a_tabs"
            /\ bg' = IF c.cfg.runAt # "none" /\ c.cfg.cron.form = "none"
                     THEN Enter(bg, i)
                     ELSE [bg EXCEPT !.calls[i].pc = "done"]
    /\ UNCHANGED <<domVars, scanVars, monitorVars, fill, runner, pool, typing>>

\* getState() of scheduleJob or cancelJob settles; the job is set or
\* deleted on the object read and saveState is called
\* (background.ts:145-147, 170-172)
GetStateSettles ==
    /\ \E i \in 1..Len(bg.calls) :
         LET c == bg.calls[i]
         IN /\ c.pc = "getState"
            /\ bg' = [bg EXCEPT !.calls[i].pc = "save",
                                !.calls[i].read = bg.jobs]
    /\ UNCHANGED <<domVars, scanVars, monitorVars, fill, runner, pool, typing>>

\* saveState settles: the object is stored, alarms.clear is called
\* (background.ts:147-150, 172-173)
SaveSettles ==
    /\ \E i \in 1..Len(bg.calls) :
         LET c == bg.calls[i]
         IN /\ c.pc = "save"
            /\ bg' = [bg EXCEPT
                        !.jobs = IF c.kind = "schedule" THEN Put(c.read, c.cfg)
                                 ELSE Delete(c.read, c.cfg.id),
                        !.lost = @ \/ bg.jobs # c.read,
                        !.calls[i].pc = "clear"]
    /\ UNCHANGED <<domVars, scanVars, monitorVars, fill, runner, pool, typing>>

\* the alarm scheduleJob creates (background.ts:152-159)
alarmsCreate(alarms, cfg) ==
    IF cfg.runAt # "none" THEN alarms \cup {[id |-> cfg.id, periodic |-> FALSE]}
    ELSE IF cfg.cron.form # "none" /\ cronToMinutes(cfg.cron) # 0
    THEN alarms \cup {[id |-> cfg.id, periodic |-> TRUE]}
    ELSE alarms

\* alarms.clear settles; scheduleJob creates the alarm; the lock is released
\* (background.ts:150-162, 173-176)
ClearSettles ==
    /\ \E i \in 1..Len(bg.calls) :
         LET c == bg.calls[i]
             cleared == {a \in bg.alarms : a.id # c.cfg.id}
         IN /\ c.pc = "clear"
            /\ bg' = Leave([bg EXCEPT
                              !.alarms = IF c.kind = "schedule"
                                         THEN alarmsCreate(cleared, c.cfg)
                                         ELSE cleared], i)
    /\ UNCHANGED <<domVars, scanVars, monitorVars, fill, runner, pool, typing>>

\* storage.local.remove settles, alarms.getAll is called (background.ts:263-266)
RemoveSettles ==
    /\ \E i \in 1..Len(bg.calls) :
         /\ bg.calls[i].pc = "remove"
         /\ bg' = [bg EXCEPT !.jobs = {}, !.calls[i].pc = "getAll"]
    /\ UNCHANGED <<domVars, scanVars, monitorVars, fill, runner, pool, typing>>

\* alarms.getAll settles, and each alarms.clear of the loop
\* (background.ts:266-274)
ResetClearSettles ==
    /\ \E i \in 1..Len(bg.calls) :
         LET c == bg.calls[i]
             todo == IF c.pc = "getAll" THEN bg.alarms ELSE c.todo
             b == IF c.pc = "getAll" THEN bg
                  ELSE [bg EXCEPT !.alarms =
                           {a \in @ : a.id # (CHOOSE t \in c.todo : TRUE).id}]
             rest == IF c.pc = "getAll" THEN todo
                     ELSE todo \ {CHOOSE t \in c.todo : TRUE}
         IN /\ c.pc \in {"getAll", "clearEach"}
            /\ bg' = IF rest = {} THEN Leave([b EXCEPT !.calls[i].todo = {}], i)
                     ELSE [b EXCEPT !.calls[i].pc = "clearEach",
                                    !.calls[i].todo = rest]
    /\ UNCHANGED <<domVars, scanVars, monitorVars, fill, runner, pool, typing>>

(***************************************************************************)
(* Typing a text into one element: simulateTyping (src/humansimulator.ts)  *)
(* and FormFiller._typeText (src/formfiller.ts).  typing is                *)
(*   pc      "idle" | "pause" (await randomPause, humansimulator.ts:50) |  *)
(*           "sleep" (await _sleep, formfiller.ts:135) | "done" | "threw"  *)
(*   who     the function called; text, clearExisting: its arguments       *)
(*   i       characters written so far                                     *)
(*   value   the element's value, a sequence of characters                 *)
(*   currentValue   the local of simulateTyping                            *)
(*   log     what happened to the element, in order: [e, v], e the event   *)
(*           dispatched, or "clear" / "write" for an assignment to the     *)
(*           value, v the value after it                                   *)
(***************************************************************************)
MaxTextLen == 3      \* longest text typed

NotTyping ==
    [pc |-> "idle", who |-> "", text |-> <<>>, clearExisting |-> FALSE,
     i |-> 0, value |-> <<>>, currentValue |-> <<>>, log |-> <<>>]

\* setElementValue / el.value = ... and target.dispatchEvent
\* (humansimulator.ts:189-205, 163-171; formfiller.ts:270-275)
setElementValue(t, e, value) ==
    [t EXCEPT !.value = value, !.log = Append(@, [e |-> e, v |-> value])]
dispatchEvent(t, e) == [t EXCEPT !.log = Append(@, [e |-> e, v |-> t.value])]

\* the loop body of simulateTyping without its input event
simulateTypingCharSilent(t) ==
    LET char == t.text[t.i + 1]
        cur == Append(t.currentValue, char)
        t1 == dispatchEvent(dispatchEvent(t, "keydown"), "keypress")
        t2 == setElementValue([t1 EXCEPT !.currentValue = cur, !.i = @ + 1],
                              "write", cur)
    IN dispatchEvent(t2, "keyup")

\* the loop body of simulateTyping after its pause (humansimulator.ts:54-63)
simulateTypingChar(t) ==
    LET char == t.text[t.i + 1]
        cur == Append(t.currentValue, char)
        t1 == dispatchEvent(dispatchEvent(t, "keydown"), "keypress")
        t2 == setElementValue([t1 EXCEPT !.currentValue = cur, !.i = @ + 1],
                              "write", cur)
    IN dispatchEvent(dispatchEvent(t2, "input"), "keyup")

\* the loop head of simulateTyping, and the end (humansimulator.ts:49-53, 66)
simulateTypingLoop(t) ==
    IF t.i < Len(t.text) THEN [t EXCEPT !.pc = "pause"]
    ELSE [dispatchEvent(t, "change") EXCEPT !.pc = "done"]

\* the loop of _typeText up to its sleep, and the end (formfiller.ts:132-138)
typeTextLoop(t) ==
    IF t.i < Len(t.text)
    THEN [dispatchEvent(
            setElementValue([t EXCEPT !.i = @ + 1], "write",
                            Append(t.value, t.text[t.i + 1])), "input")
          EXCEPT !.pc = "sleep"]
    ELSE [dispatchEvent(dispatchEvent(t, "blur"), "change")
          EXCEPT !.pc = "done"]

RECURSIVE SeqsUpTo(_, _)
SeqsUpTo(S, n) ==
    IF n = 0 THEN {<<>>}
    ELSE LET shorter == SeqsUpTo(S, n - 1)
         IN shorter \cup {Append(s, x) : s \in shorter, x \in S}

TextsTried == SeqsUpTo({"a", "b"}, MaxTextLen)
ValuesTried == {<<>>, <<"x">>}

\* simulateTyping(element, text, options) up to its first await
\* (humansimulator.ts:22-50)
SimulateTyping ==
    /\ typing.pc = "idle"
    /\ \E text \in TextsTried, value \in ValuesTried,
          clearExisting \in BOOLEAN, isConnected \in BOOLEAN :
         LET t0 == [NotTyping EXCEPT !.who = "simulateTyping", !.text = text,
                                     !.clearExisting = clearExisting,
                                     !.value = value]
             t1 == dispatchEvent(t0, "focus")
             t2 == IF clearExisting
                   THEN dispatchEvent(dispatchEvent(
                            setElementValue(t1, "clear", <<>>), "input"),
                            "change")
                   ELSE t1
         IN typing' = IF ~isConnected THEN [t0 EXCEPT !.pc = "threw"]
                      ELSE simulateTypingLoop(
                               [t2 EXCEPT !.currentValue = t2.value])
    /\ UNCHANGED <<domVars, scanVars, monitorVars, fill, runner, pool, bg>>

\* randomPause settles: one character is typed (humansimulator.ts:50-66)
RandomPauseSettles ==
    /\ typing.pc = "pause"
    /\ typing' = simulateTypingLoop(simulateTypingChar(typing))
    /\ UNCHANGED <<domVars, scanVars, monitorVars, fill, runner, pool, bg>>

\* FormFiller._typeText(el, text, opts) up to its first await
\* (formfiller.ts:122-135)
TypeText ==
    /\ typing.pc = "idle"
    /\ \E text \in TextsTried, value \in ValuesTried :
         LET t0 == [NotTyping EXCEPT !.who = "_typeText", !.text = text,
                                     !.value = value]
             t1 == dispatchEvent(dispatchEvent(t0, "focus"), "select")
             t2 == dispatchEvent(setElementValue(t1, "clear", <<>>), "input")
         IN typing' = typeTextLoop(t2)
    /\ UNCHANGED <<domVars, scanVars, monitorVars, fill, runner, pool, bg>>

\* _sleep settles: the next character, or the end (formfiller.ts:132-138)
SleepSettles ==
    /\ typing.pc = "sleep"
    /\ typing' = typeTextLoop(typing)
    /\ UNCHANGED <<domVars, scanVars, monitorVars, fill, runner, pool, bg>>

(***************************************************************************)
(* The content script's event loop (Spec).                                 *)
(*                                                                         *)
(* A task (a page script, a timer callback, a message listener) starts     *)
(* only when no other code occupies the thread and the microtask queue is  *)
(* empty; the MutationObserver callback is a microtask and runs before the *)
(* next task.  One scanDOM execution is a frame                            *)
(*   [caller, options, pc, results]                                        *)
(* pushed by its caller (contentscript.ts:142-144), stepped by             *)
(* ScanTraverse (line 210) and ScanPublish (lines 211-213).               *)
(***************************************************************************)
\* scanDOM with an await after the traversal
scanDOMAwaitsBeforePublish(pc) == pc = "publish"

\* does scanDOM give up the thread at pc?  contentscript.ts:141-214 is a
\* plain function: no await, no callback
scanDOMAwaits(pc) == FALSE

\* cachedFields bound to the working list from the first statement on
cachedFieldsAliased(pc, results, cache) == List(results)

\* cachedFields after the scanDOM step at pc: written once, at line 211
cachedFieldsAfter(pc, results, cache) ==
    IF pc = "publish" THEN List(results) ELSE cache

\* window.clearTimeout(id) that cancels nothing
clearTimeoutSkipped(armed, id) == armed

\* window.clearTimeout(id) (contentscript.ts:294-296)
clearTimeout(armed, id) == armed \ {id}

\* the roots observer.observe(...) delivers records for: the top document
\* with subtree: true, which stops at shadow roots and frame documents
\* (contentscript.ts:301)
observedRoots == {TopDocument}

\* sendResults (contentscript.ts:305-311); runtime is defined exactly when
\* the listener was registered
sendResults(payload) ==
    IF listening THEN [lastSent EXCEPT !.message = payload] ELSE lastSent

NoHistory ==
    [mutations |-> 0, scanMsgs |-> 0,
     windows |-> 0,       \* quiet windows opened by a notification
     notifs |-> 0,        \* notifications delivered in the open window
     closed |-> 0,        \* notifications of the window the last timer closed
     timerScans |-> 0,    \* scanDOM calls made by the debounce timer
     finished |-> 0,      \* scanDOM calls that returned
     scanDom |-> <<>>,    \* the page the last finished scanDOM saw
     scanOptions |-> DefaultOptions,  \* and its options
     discovered |-> {},   \* contexts the last finished scanDOM entered
     lastMut |-> [root |-> NoNode, observing |-> FALSE, discovered |-> FALSE],
                          \* the last mutation: the root of the tree changed,
                          \* was the observer set, had a scan entered the root
     armedSince |-> FALSE] \* a timer was armed after the last mutation

\* the content script before it runs
MonitorIdle ==
    /\ initPc = "start" /\ listening = FALSE /\ observer = Null
    /\ debounceTimer = 0 /\ timers = {} /\ nextTimerId = 1 /\ records = 0
    /\ frames = <<>> /\ cachedFields = NullList
    /\ lastSent = [message |-> [type |-> "none", fields |-> <<>>],
                   response |-> NullList]
    /\ hist = NoHistory

\* the page the content script is injected into: <div> hosting a shadow
\* root with <input id="email">, and an <input> in <body>
MonitorPage ==
    appendChild(
      appendChild(
        attachShadow(appendChild(EmptyPage, 3, "div", "", {}, FALSE, ""), 4),
        5, "input", "email", {}, FALSE, ""),
      3, "input", "", {}, FALSE, "")

\* no fillForm call, a runner not yet run, no pool
NoFill == [pc |-> "idle", pending |-> <<>>, filled |-> {}, calls |-> 0,
           responded |-> FALSE]
NoPool == [pc |-> "none"]
ExtIdle ==
    /\ fill = NoFill /\ runner = RunnerNew /\ pool = NoPool
    /\ bg = BackgroundNew /\ typing = NotTyping

ThreadFree == \A i \in 1..Len(frames) : scanDOMAwaits(frames[i].pc)
TaskMayStart == ThreadFree /\ records = 0

\* contentscript.ts:142-144: a call of scanDOM(options)
beginScan(caller, options) ==
    /\ frames' = Append(frames, [caller |-> caller, options |-> options,
                                 pc |-> "traverse", results |-> <<>>])
    /\ cachedFields' = cachedFieldsAfter("begin", <<>>, cachedFields)

RemoveAt(s, i) == SubSeq(s, 1, i - 1) \o SubSeq(s, i + 1, Len(s))

\* initContentScript up to its scanDOM() call (contentscript.ts:314-336)
InitContentScript ==
    /\ initPc = "start"
    /\ TaskMayStart
    /\ \E runtimeDefined \in BOOLEAN : listening' = runtimeDefined
    /\ initPc' = "scan"
    /\ beginScan("init", DefaultOptions)
    /\ UNCHANGED <<extVars, dom, scanned, resolved, observer, debounceTimer, timers, nextTimerId,
                   records, lastSent, hist>>

\* a page script inserts an <input> into a container of the page
Mutate ==
    /\ TaskMayStart
    /\ hist.mutations < MaxMutations
    /\ \E c \in Containers(dom) :
         /\ dom' = appendChild(dom, c, "input", "", {}, FALSE, "")
         /\ records' = IF observer # Null /\ RootOf(dom, c) \in observedRoots
                       THEN 1 ELSE 0
         /\ hist' = [hist EXCEPT
                       !.mutations = @ + 1,
                       !.lastMut = [root |-> RootOf(dom, c),
                                    observing |-> observer # Null,
                                    discovered |-> RootOf(dom, c) \in hist.discovered],
                       !.armedSince = FALSE]
    /\ UNCHANGED <<extVars, scanned, resolved, initPc, listening, observer, debounceTimer, timers,
                   nextTimerId, frames, cachedFields, lastSent>>

\* the MutationObserver callback (contentscript.ts:293-300)
ObserverCallback ==
    /\ records > 0
    /\ ThreadFree
    /\ records' = 0
    /\ timers' = (IF debounceTimer # 0 THEN clearTimeout(timers, debounceTimer)
                  ELSE timers) \cup {nextTimerId}
    /\ debounceTimer' = nextTimerId
    /\ nextTimerId' = nextTimerId + 1
    /\ hist' = [hist EXCEPT
                  !.windows = IF timers = {} THEN @ + 1 ELSE @,
                  !.notifs = @ + 1,
                  !.armedSince = TRUE]
    /\ UNCHANGED <<extVars, dom, scanned, resolved, initPc, listening, observer, frames,
                   cachedFields, lastSent>>

\* the timeout callback (contentscript.ts:297-299)
TimerFires ==
    /\ TaskMayStart
    /\ \E t \in timers :
         /\ timers' = timers \ {t}
         /\ beginScan("timer", DefaultOptions)
         /\ hist' = [hist EXCEPT !.timerScans = @ + 1, !.closed = hist.notifs,
                                 !.notifs = 0]
    /\ UNCHANGED <<extVars, dom, scanned, resolved, initPc, listening, observer, debounceTimer,
                   nextTimerId, records, lastSent>>

\* options a 'scan' message carries, merged over DEFAULT_OPTIONS (line 142)
MessageOptions ==
    {DefaultOptions, [DefaultOptions EXCEPT !.includeShadowDom = FALSE]}

\* the onMessage listener, command 'scan' (contentscript.ts:316-321)
ScanMessage ==
    /\ listening
    /\ initPc = "done"
    /\ TaskMayStart
    /\ hist.scanMsgs < MaxScanMsgs
    /\ \E o \in MessageOptions : beginScan("message", o)
    /\ hist' = [hist EXCEPT !.scanMsgs = @ + 1]
    /\ UNCHANGED <<extVars, dom, scanned, resolved, initPc, listening, observer, debounceTimer,
                   timers, nextTimerId, records, lastSent>>

\* frame i may take a step: no other frame occupies the thread
MayStep(i) == \A j \in (1..Len(frames)) \ {i} : scanDOMAwaits(frames[j].pc)

\* contentscript.ts:210; an exception would leave scanDOM and its caller
ScanTraverse ==
    \E i \in 1..Len(frames) :
      /\ frames[i].pc = "traverse"
      /\ MayStep(i)
      /\ LET st == scanDOMTraversal(dom, frames[i].options)
         IN IF st.threw
            THEN /\ frames' = RemoveAt(frames, i)
                 /\ initPc' = IF frames[i].caller = "init" THEN "failed" ELSE initPc
                 /\ UNCHANGED cachedFields
            ELSE /\ frames' = [frames EXCEPT ![i].pc = "publish",
                                             ![i].results = st.results]
                 /\ cachedFields' =
                       cachedFieldsAfter("traverse", st.results, cachedFields)
                 /\ UNCHANGED initPc
      /\ UNCHANGED <<extVars, dom, scanned, resolved, listening, observer, debounceTimer, timers,
                     nextTimerId, records, lastSent, hist>>

\* contentscript.ts:211-213 and what the caller does with the return value:
\* initContentScript goes on to observeMutations() (lines 289-302, 337),
\* the listener passes it to sendResponse (line 320)
ScanPublish ==
    \E i \in 1..Len(frames) :
      LET f == frames[i]
          sent == sendResults([type |-> "scan-complete", fields |-> f.results])
      IN
      /\ f.pc = "publish"
      /\ MayStep(i)
      /\ cachedFields' = cachedFieldsAfter("publish", f.results, cachedFields)
      /\ lastSent' = IF f.caller = "message"
                     THEN [sent EXCEPT !.response = List(f.results)] ELSE sent
      /\ frames' = RemoveAt(frames, i)
      /\ initPc' = IF f.caller = "init" THEN "done" ELSE initPc
      /\ observer' = IF f.caller = "init" /\ observer = Null THEN "set" ELSE observer
      /\ debounceTimer' = IF f.caller = "init" /\ observer = Null THEN 0
                          ELSE debounceTimer
      /\ hist' = [hist EXCEPT
                    !.finished = IF @ < 2 THEN @ + 1 ELSE @,
                    !.scanDom = dom,
                    !.scanOptions = f.options,
                    !.discovered =
                       LET st == scanDOMTraversal(dom, f.options)
                       IN {TopDocument} \cup
                          {shadowRoot(dom, st.crossed[k].el) : k \in 1..Len(st.crossed)}
                          \cup {contentDocument(dom, st.crossed[k].el) :
                                   k \in 1..Len(st.crossed)}]
      /\ UNCHANGED <<extVars, dom, scanned, resolved, listening, timers, nextTimerId, records>>

Init ==
    /\ dom = MonitorPage
    /\ scanned = [op |-> "none"]
    /\ resolved = [op |-> "none"]
    /\ MonitorIdle
    /\ ExtIdle

Next ==
    \/ InitContentScript
    \/ Mutate
    \/ ObserverCallback
    \/ TimerFires
    \/ ScanMessage
    \/ ScanTraverse
    \/ ScanPublish

Spec == Init /\ [][Next]_vars

(***************************************************************************)
(* fillForm in the event loop (SpecContent).  fill is                      *)
(*   pc        "idle" | "delays" (awaiting Promise.all, line 284) |        *)
(*             "done" | "failed" (queryDeepAll threw, the call rejected)   *)
(*   pending   the elements whose closure awaits its delay (line 231)      *)
(*   filled    the elements whose value was set                            *)
(***************************************************************************)
MaxFillMsgs == 1     \* 'fill' command messages

\* msg.mapping of a 'fill' message whose rowData has every column: the deep
\* selectors of the mapping, in key order
FillMappings ==
    { << << <<Frag("input", "", {}, 0)>> >> >>,
      << << <<Frag("div", "", {}, 0)>>, <<Frag("input", "", {}, 0)>> >> >>,
      << << <<Frag("input", "", {}, 0)>> >>,
         << <<Frag("div", "", {}, 0)>>, <<Frag("input", "", {}, 0)>> >> >>,
      << << <<Frag("textarea", "", {}, 0)>> >> >> }

\* contentscript.ts:222-282: the targets of every entry, in order
RECURSIVE fillTargets(_, _, _)
fillTargets(d, mapping, i) ==
    IF i > Len(mapping) THEN [els |-> <<>>, threw |-> FALSE]
    ELSE LET q == queryDeepAll(d, mapping[i])
             rest == fillTargets(d, mapping, i + 1)
         IN IF q.threw \/ rest.threw THEN [els |-> <<>>, threw |-> TRUE]
            ELSE [els |-> q.els \o rest.els, threw |-> FALSE]

\* contentscript.ts:284-285 and 324: Promise.all has resolved, the
\* continuation of fillForm and of the listener run as microtasks
fillComplete(f) == [f EXCEPT !.pc = "done", !.responded = TRUE]

\* the onMessage listener, command 'fill', up to the await of line 284
\* (contentscript.ts:217-284, 322-325)
FillMessage ==
    /\ listening
    /\ initPc = "done"
    /\ TaskMayStart
    /\ fill.pc # "delays"
    /\ fill.calls < MaxFillMsgs
    /\ \E mapping \in FillMappings :
         LET targets == fillTargets(dom, mapping, 1)
             f == [fill EXCEPT !.calls = @ + 1, !.filled = {},
                               !.responded = FALSE, !.pending = targets.els]
         IN /\ fill' = IF targets.threw THEN [f EXCEPT !.pc = "failed"]
                       ELSE IF targets.els = <<>> THEN fillComplete(f)
                       ELSE [f EXCEPT !.pc = "delays"]
            /\ lastSent' = IF ~targets.threw /\ targets.els = <<>>
                           THEN sendResults([type |-> "fill-complete",
                                             fields |-> <<>>])
                           ELSE lastSent
    /\ UNCHANGED <<dom, scanned, resolved, initPc, listening, observer,
                   debounceTimer, timers, nextTimerId, records, frames,
                   cachedFields, hist, runner, pool, bg, typing>>

\* the delay of one closure elapses: the element's value is set
\* (contentscript.ts:231-279); after the last one fillForm completes
FillDelayElapses ==
    /\ fill.pc = "delays"
    /\ TaskMayStart
    /\ \E i \in 1..Len(fill.pending) :
         LET f == [fill EXCEPT !.pending = RemoveAt(@, i),
                               !.filled = @ \cup {fill.pending[i]}]
         IN /\ fill' = IF f.pending = <<>> THEN fillComplete(f) ELSE f
            /\ lastSent' = IF f.pending = <<>>
                           THEN sendResults([type |-> "fill-complete",
                                             fields |-> <<>>])
                           ELSE lastSent
    /\ UNCHANGED <<dom, scanned, resolved, initPc, listening, observer,
                   debounceTimer, timers, nextTimerId, records, frames,
                   cachedFields, hist, runner, pool, bg, typing>>

ContentNext ==
    \/ Next
    \/ FillMessage
    \/ FillDelayElapses

SpecContent == Init /\ [][ContentNext]_vars

(***************************************************************************)
(* Page scripts building the DOM (SpecScan).                               *)
(***************************************************************************)
StructureKinds ==
    { <<"div", FALSE, "">>, <<"div", TRUE, "">>, <<"input", FALSE, "">>,
      <<"iframe", FALSE, "same">>, <<"iframe", FALSE, "throws">>,
      <<"iframe", FALSE, "null">> }

Building == scanned.op = "none" /\ resolved.op = "none"

\* a page script appends an element without id or class
AddElement ==
    /\ Building
    /\ Cardinality(AddedElems(dom)) < MaxElems
    /\ \E p \in Containers(dom), k \in StructureKinds :
         dom' = appendChild(dom, p, k[1], "", {}, k[2], k[3])
    /\ UNCHANGED <<scanVars, monitorVars, extVars>>

\* a page script attaches a shadow root to a <div>
AttachShadow ==
    /\ Building
    /\ Cardinality(ShadowRoots(dom)) < MaxShadows
    /\ \E h \in Nodes(dom) :
         /\ IsElement(dom, h) /\ dom[h].tag = "div" /\ shadowRoot(dom, h) = NoNode
         /\ dom' = attachShadow(dom, h)
    /\ UNCHANGED <<scanVars, monitorVars, extVars>>

\* the options a caller passes to scanDOM
ScanOptionsTried ==
    [includeShadowDom : {TRUE}, maxDepth : 0..MaxDepthOpt, iframeTraversal : {TRUE}]
    \cup [includeShadowDom : BOOLEAN, maxDepth : {DefaultMaxDepth},
          iframeTraversal : BOOLEAN]

\* scanDOM(options) on the page as it is (contentscript.ts:141-214)
CallScanDOM ==
    /\ Building
    /\ \E o \in ScanOptionsTried :
         LET st == scanDOMTraversal(dom, o)
         IN scanned' = [op |-> "scanDOM", options |-> o, threw |-> st.threw,
                        results |-> st.results, crossed |-> st.crossed]
    /\ UNCHANGED <<domVars, resolved, monitorVars, extVars>>

ScanInit ==
    /\ dom = EmptyPage
    /\ scanned = [op |-> "none"]
    /\ resolved = [op |-> "none"]
    /\ MonitorIdle
    /\ ExtIdle

\* FormFiller.scanPage() on the page as it is (formfiller.ts:30-43)
CallFormFillerScanPage ==
    /\ Building
    /\ LET st == FF_scanPage(dom)
       IN scanned' = [op |-> "FormFiller.scanPage", threw |-> st.threw,
                      results |-> st.mappings]
    /\ UNCHANGED <<domVars, resolved, monitorVars, extVars>>

\* scanPage() on the page as it is (part_007:1-21)
CallScanPage ==
    /\ Building
    /\ LET st == scanPage(dom)
       IN scanned' = [op |-> "scanPage", threw |-> st.threw,
                      results |-> st.out, entered |-> st.entered]
    /\ UNCHANGED <<domVars, resolved, monitorVars, extVars>>

ScanNext ==
    \/ AddElement
    \/ AttachShadow
    \/ CallScanDOM
    \/ CallFormFillerScanPage
    \/ CallScanPage

SpecScan == ScanInit /\ [][ScanNext]_vars

(***************************************************************************)
(* FormFiller on pages whose fields carry ids (SpecFill): scanPage, then   *)
(* _resolveElement on a captured mapping; _resolveElement and fillRow on   *)
(* mappings a caller stored earlier.                                       *)
(***************************************************************************)
MaxInserted == 3     \* elements page scripts insert in SpecFill / SpecQuery

\* <<tag, id, access>> of the elements inserted
FieldKinds ==
    { <<"div", "", "">>, <<"input", "", "">>, <<"input", "email", "">>,
      <<"select", "", "">>, <<"iframe", "", "same">>, <<"iframe", "", "throws">>,
      <<"iframe", "", "null">> }

\* a page script appends an element, possibly with an id
InsertElement ==
    /\ Building
    /\ Cardinality(AddedElems(dom)) < MaxInserted
    /\ \E p \in Containers(dom), k \in FieldKinds :
         dom' = appendChild(dom, p, k[1], k[2], {}, FALSE, k[3])
    /\ UNCHANGED <<scanVars, monitorVars, extVars>>

\* a FieldMapping (formfiller.ts:3-8) that was not captured from this page
StoredMapping(framePath, selector) ==
    [column |-> 1, selector |-> selector, framePath |-> framePath,
     type |-> "input", el |-> NoNode]

\* mappings a caller kept from an earlier scan of some page
MappingsTried ==
    { StoredMapping(fp, sel) :
        fp \in { <<>>,
                 <<FrameHop(0)>>,
                 <<HostHop(<<Frag("div", "", {}, 0)>>)>>,
                 <<HostHop(<<Frag("div", "", {}, 0)>>), FrameHop(0)>> },
        sel \in { <<Frag("input", "", {}, 0)>> } }

\* FormFiller._resolveElement(map) (formfiller.ts:232-251) on a mapping the
\* scan has just returned, or on a stored one
ResolveElement ==
    /\ resolved.op = "none"
    /\ \/ /\ scanned.op = "FormFiller.scanPage"
          /\ \E i \in 1..Len(scanned.results) :
               resolved' = [op |-> "_resolveElement", captured |-> TRUE,
                            map |-> scanned.results[i],
                            outcome |-> FF_resolveElement(dom, scanned.results[i])]
       \/ /\ scanned.op = "none"
          /\ \E m \in MappingsTried :
               resolved' = [op |-> "_resolveElement", captured |-> FALSE,
                            map |-> m, outcome |-> FF_resolveElement(dom, m)]
    /\ UNCHANGED <<domVars, scanned, monitorVars, extVars>>

\* FormFiller.fillRow(rowData, [m, last]) (formfiller.ts:52-68): a stored
\* mapping followed by one for the first <input> of the top document
CallFillRow ==
    /\ Building
    /\ \E m \in {t \in MappingsTried : Len(t.framePath) <= 1} :
         LET mappings == <<m, StoredMapping(<<>>, <<Frag("input", "", {}, 0)>>)>>
         IN resolved' = [op |-> "fillRow", mappings |-> mappings,
                         outcome |-> FF_fillRow(dom, mappings,
                                       [applied |-> <<>>, threw |-> FALSE])]
    /\ UNCHANGED <<domVars, scanned, monitorVars, extVars>>

FillNext ==
    \/ InsertElement
    \/ AttachShadow
    \/ CallFormFillerScanPage
    \/ ResolveElement
    \/ CallFillRow

SpecFill == ScanInit /\ [][FillNext]_vars

(***************************************************************************)
(* The content script on pages whose fields carry ids (SpecQuery): a       *)
(* 'scan' command, then queryDeepAll on a selector it returned or a second *)
(* scan; queryDeepAll on queries a caller wrote.                           *)
(***************************************************************************)
\* the 'scan' command on the page as it is: scanDOM(msg.options)
\* (contentscript.ts:319-321)
ScanCommand ==
    /\ Building
    /\ \E o \in MessageOptions :
         LET st == scanDOMTraversal(dom, o)
         IN scanned' = [op |-> "scanDOM", options |-> o, threw |-> st.threw,
                        results |-> st.results, crossed |-> st.crossed,
                        visited |-> st.visited]
    /\ UNCHANGED <<domVars, resolved, monitorVars, extVars>>

\* a second 'scan' command with the same options, the page untouched
ScanAgain ==
    /\ scanned.op = "scanDOM"
    /\ resolved.op = "none"
    /\ LET st == scanDOMTraversalAfter(dom, scanned.options, scanned)
       IN resolved' = [op |-> "scanDOM", threw |-> st.threw, results |-> st.results]
    /\ UNCHANGED <<domVars, scanned, monitorVars, extVars>>

AnyElement == <<Frag("", "", {}, 0)>>      \* the selector '*'

\* deep selectors a caller writes
QueriesTried ==
    { <<>>,
      << <<Frag("input", "", {}, 0)>> >>,
      << <<Frag("div", "", {}, 0)>>, <<Frag("input", "", {}, 0)>> >>,
      << <<Frag("iframe", "", {}, 0)>>, <<Frag("input", "", {}, 0)>> >>,
      << AnyElement, <<Frag("input", "", {}, 0)>> >>,
      << AnyElement, AnyElement, <<Frag("input", "", {}, 0)>> >> }

\* queryDeepAll(selector) (contentscript.ts:99-138, called at line 226) on
\* the selector of a field the scan has just returned, or on a written one
QueryDeepAll ==
    /\ resolved.op = "none"
    /\ \/ /\ scanned.op = "scanDOM"
          /\ ~scanned.threw
          /\ \E i \in 1..Len(scanned.results) :
               resolved' = [op |-> "queryDeepAll", captured |-> TRUE,
                            query |-> scanned.results[i].selector,
                            el |-> scanned.results[i].el,
                            outcome |-> queryDeepAll(dom, scanned.results[i].selector)]
       \/ /\ scanned.op = "none"
          /\ \E q \in QueriesTried :
               resolved' = [op |-> "queryDeepAll", captured |-> FALSE,
                            query |-> q, el |-> NoNode,
                            outcome |-> queryDeepAll(dom, q)]
    /\ UNCHANGED <<domVars, scanned, monitorVars, extVars>>

QueryNext ==
    \/ InsertElement
    \/ AttachShadow
    \/ ScanCommand
    \/ ScanAgain
    \/ QueryDeepAll

SpecQuery == ScanInit /\ [][QueryNext]_vars

(***************************************************************************)
(* One FormFillerRunner, its run() and abort() (SpecRunner).               *)
(***************************************************************************)
RunnerStep ==
    \/ Launched
    \/ LoopHead
    \/ PageClosed
    \/ PageCreated
    \/ Navigate
    \/ GotoSettles
    \/ LoadStateSettles
    \/ FieldHead
    \/ WaitForSelectorSettles
    \/ QuerySettles
    \/ ActSettles
    \/ CaptureSettles
    \/ WriteBackSettles
    \/ Disposed

RunnerNext ==
    \/ Run
    \/ Abort
    \/ RunnerStep

SpecRunner == ScanInit /\ [][RunnerNext]_vars

\* every await of run() settles: the browser answers or times out
SpecRunnerFair == ScanInit /\ [][RunnerNext]_vars /\ WF_vars(RunnerStep)

(***************************************************************************)
(* One BrowserPool and its callers (SpecPool).                             *)
(***************************************************************************)
PoolNext ==
    \/ CreatePool
    \/ PrewarmTurn
    \/ Acquire
    \/ Release
    \/ Shutdown
    \/ LaunchSettles
    \/ CloseSettles
    \/ Disconnect

SpecPool == ScanInit /\ [][PoolNext]_vars

\* every launch and close settles, every leased browser is released, and
\* createPool runs on
SpecPoolFair ==
    /\ ScanInit /\ [][PoolNext]_vars
    /\ WF_vars(PrewarmTurn) /\ WF_vars(LaunchSettles)
    /\ WF_vars(CloseSettles) /\ WF_vars(Release)

(***************************************************************************)
(* Selector and label functions on pages with classes and labels           *)
(* (SpecMarkup).                                                           *)
(***************************************************************************)
MaxMarkup == 3       \* elements page scripts insert in SpecMarkup

\* the page the scripts start from: <body><div></div></body>
MarkupPage == appendChild(EmptyPage, 3, "div", "", {}, FALSE, "")

\* <<tag, id, class list, for>> of the elements inserted
MarkupKinds ==
    { <<"input", "", {}, "">>, <<"input", "", {"a"}, "">>,
      <<"input", "f", {}, "">>, <<"label", "", {}, "">>,
      <<"label", "", {}, "f">> }

\* a page script appends an input or a label to the body, the div or a label
InsertMarkup ==
    /\ Building
    /\ Len(dom) < Len(MarkupPage) + MaxMarkup
    /\ \E p \in {n \in Nodes(dom) :
                   IsElement(dom, n) /\ dom[n].tag \in {"body", "div", "label"}},
          k \in MarkupKinds :
         dom' = IF k[1] = "label" THEN Append(dom, Label(p, k[4]))
                ELSE appendChild(dom, p, k[1], k[2], k[3], FALSE, "")
    /\ UNCHANGED <<scanVars, monitorVars, extVars>>

\* the fields a scan of the page detects
MarkupFields == {n \in Nodes(dom) : IsElement(dom, n) /\ isField(dom, n)}

\* uniqueSelector(el, root) as scanDOM calls it (contentscript.ts:163)
CallUniqueSelector ==
    /\ Building
    /\ \E el \in MarkupFields :
         resolved' = [op |-> "uniqueSelector", el |-> el,
                      selector |-> uniqueSelector(dom, el, RootOf(dom, el))]
    /\ UNCHANGED <<domVars, scanned, monitorVars, extVars>>

\* extractLabelText(el) as scanDOM calls it (contentscript.ts:173)
CallExtractLabelText ==
    /\ Building
    /\ \E el \in MarkupFields :
         resolved' = [op |-> "extractLabelText", el |-> el,
                      label |-> extractLabelText(dom, el)]
    /\ UNCHANGED <<domVars, scanned, monitorVars, extVars>>

\* resolveLabelText(el) as internalScanRoot calls it (part_007:64)
CallResolveLabelText ==
    /\ Building
    /\ \E el \in MarkupFields :
         resolved' = [op |-> "resolveLabelText", el |-> el,
                      label |-> resolveLabelText(dom, el)]
    /\ UNCHANGED <<domVars, scanned, monitorVars, extVars>>

MarkupInit ==
    /\ dom = MarkupPage
    /\ scanned = [op |-> "none"]
    /\ resolved = [op |-> "none"]
    /\ MonitorIdle
    /\ ExtIdle

MarkupNext ==
    \/ InsertMarkup
    \/ CallUniqueSelector
    \/ CallExtractLabelText
    \/ CallResolveLabelText

SpecMarkup == MarkupInit /\ [][MarkupNext]_vars

(***************************************************************************)
(* The background script and its callers (SpecBackground).                 *)
(***************************************************************************)
BackgroundStep ==
    \/ AlarmGetStateSettles
    \/ AlarmTabsSettles
    \/ GetStateSettles
    \/ SaveSettles
    \/ ClearSettles
    \/ RemoveSettles
    \/ ResetClearSettles

BackgroundNext ==
    \/ ScheduleJob
    \/ CancelJob
    \/ ResetState
    \/ AlarmFires
    \/ BackgroundStep

SpecBackground == ScanInit /\ [][BackgroundNext]_vars

\* every storage, alarms and tabs request of the browser settles
SpecBackgroundFair ==
    ScanInit /\ [][BackgroundNext]_vars /\ WF_vars(BackgroundStep)

(***************************************************************************)
(* Typing into one element (SpecTyping).                                   *)
(***************************************************************************)
TypingNext ==
    \/ SimulateTyping
    \/ RandomPauseSettles
    \/ TypeText
    \/ SleepSettles

SpecTyping == ScanInit /\ [][TypingNext]_vars

(***************************************************************************)
(* Properties of the content script's event loop (Spec).                   *)
(***************************************************************************)
\* C1: at most one scanDOM execution is in progress: none begins while
\* another has begun and not returned.
C1_OneScanAtATime == Len(frames) <= 1

\* a scan asked for by a 'scan' message is in progress while the debounce
\* timer of an earlier mutation is armed
C1_Witness ==
    /\ Len(frames) = 1
    /\ frames[1].caller = "message"
    /\ timers # {}

\* C2: the notifications of one quiet window (each delivered while the
\* timer armed by the previous one is still armed) leave exactly one timer
\* armed, the one the last notification armed, so every window that has
\* closed made exactly one scanDOM call and the open one none yet.
C2_OneScanPerQuietWindow ==
    /\ Cardinality(timers) <= 1
    /\ timers # {} => timers = {debounceTimer} /\ debounceTimer = nextTimerId - 1
    /\ (timers # {}) <=> (hist.notifs >= 1)
    /\ hist.windows = hist.timerScans + Cardinality(timers)

\* the timer has just fired on a window of two notifications
C2_Witness ==
    /\ Len(frames) = 1
    /\ frames[1].caller = "timer"
    /\ hist.closed >= 2
    /\ hist.timerScans = 1

\* C3 speaks of a mutation observed while a scan is running.  No state has
\* both a scanDOM execution in progress and a record waiting for the
\* observer, and no page script runs between the steps of a scan.
C3_NoMutationDuringScan ==
    frames # <<>> => records = 0

\* C4: cachedFields is null or the complete result of a finished scanDOM:
\* the full traversal, with that call's options, of the page as it was.
C4_CacheIsACompleteResult ==
    \/ cachedFields = NullList
    \/ /\ hist.finished > 0
       /\ cachedFields =
             List(scanDOMTraversal(hist.scanDom, hist.scanOptions).results)

\* a later scan has traversed the page and holds a list that differs from
\* the cached one and is not yet published
C4_Witness ==
    /\ ~cachedFields.isNull
    /\ \E i \in 1..Len(frames) :
         /\ frames[i].pc = "publish"
         /\ frames[i].results # cachedFields.list

\* C5: once the observer is set up, a mutation inside a shadow root that
\* the last scan discovered has a notification on its way or has armed
\* the debounce timer.
C5_ShadowMutationArmsTimer ==
    (/\ hist.lastMut.root # NoNode
     /\ dom[hist.lastMut.root].kind = "shadow"
     /\ hist.lastMut.observing
     /\ hist.lastMut.discovered)
    => (records > 0 \/ hist.armedSince)

(***************************************************************************)
(* Properties of the scanners (SpecScan).                                  *)
(***************************************************************************)
\* boundary crossings between the top document and the context of node n
RECURSIVE Crossings(_, _)
Crossings(d, n) ==
    LET r == RootOf(d, n)
    IN IF r = TopDocument \/ d[r].kind = "element" THEN 0
       ELSE 1 + Crossings(d, d[r].parent)

\* n lies in a context a script of the top window may reach: every iframe
\* on the way down is same-origin
RECURSIVE Reachable(_, _)
Reachable(d, n) ==
    LET r == RootOf(d, n)
    IN \/ r = TopDocument
       \/ d[r].kind = "shadow" /\ Reachable(d, d[r].parent)
       \/ d[r].kind = "document" /\ r # TopDocument
            /\ d[d[r].parent].access = "same" /\ Reachable(d, d[r].parent)

CrossOriginFrames(d) ==
    {f \in Nodes(d) : IsElement(d, f) /\ d[f].tag = "iframe" /\ d[f].access # "same"}

NoDuplicates(s) == \A i, j \in 1..Len(s) : s[i] = s[j] => i = j

\* the elements a scan result was captured from
ResultEls ==
    IF scanned.op = "scanPage"
    THEN {scanned.results[i].elementRef : i \in 1..Len(scanned.results)}
    ELSE {scanned.results[i].el : i \in 1..Len(scanned.results)}

\* C6: scanDOM with both traversals on reports a reachable field exactly
\* when the number of boundary crossings down to its context is at most
\* maxDepth, whatever its element nesting.
C6_DepthCountsCrossingsOnly ==
    (scanned.op = "scanDOM" /\ scanned.options.includeShadowDom
        /\ scanned.options.iframeTraversal)
    => \A el \in Nodes(dom) :
         (IsElement(dom, el) /\ isField(dom, el) /\ Reachable(dom, el))
         => (el \in ResultEls <=> Crossings(dom, el) <= scanned.options.maxDepth)

\* C7: one scan invocation (scanDOM, scanPage) enters no context twice and
\* lists no element twice.
C7_VisitedOnce ==
    /\ scanned.op = "scanDOM" =>
         /\ NoDuplicates([i \in 1..Len(scanned.results) |-> scanned.results[i].el])
         /\ NoDuplicates([i \in 1..Len(scanned.crossed) |-> scanned.crossed[i].el])
    /\ scanned.op = "scanPage" =>
         /\ NoDuplicates([i \in 1..Len(scanned.results) |-> scanned.results[i].elementRef])
         /\ NoDuplicates(scanned.entered)

\* a shadow root that internalScanRoot is asked to scan twice (its host is
\* itself a control, so loops 1 and 2 both find it) and that holds a field
C7_Witness ==
    /\ scanned.op = "scanPage"
    /\ \E h \in Nodes(dom) :
         /\ IsElement(dom, h) /\ dom[h].ce /\ shadowRoot(dom, h) # NoNode
         /\ h \in ResultEls
         /\ \E e \in ResultEls : RootOf(dom, e) = shadowRoot(dom, h)

\* the page with every cross-origin frame replaced by an empty same-origin one
FramesEmptied(d) ==
    [n \in 1..Len(d) |->
        IF n \in CrossOriginFrames(d) THEN [d[n] EXCEPT !.access = "same"]
        ELSE IF IsElement(d, n) /\ d[n].parent # NoNode
                /\ d[d[n].parent].kind = "document"
                /\ d[n].parent # TopDocument
                /\ d[d[n].parent].parent \in CrossOriginFrames(d)
        THEN [d[n] EXCEPT !.parent = NoNode]
        ELSE d[n]]

\* the scan that produced `scanned`, run again on page d
Rescan(d) ==
    IF scanned.op = "scanDOM"
    THEN LET st == scanDOMTraversal(d, scanned.options)
         IN [threw |-> st.threw, results |-> st.results]
    ELSE IF scanned.op = "FormFiller.scanPage"
    THEN LET st == FF_scanPage(d) IN [threw |-> st.threw, results |-> st.mappings]
    ELSE LET st == scanPage(d) IN [threw |-> st.threw, results |-> st.out]

\* C8: a scan of a page with cross-origin iframes raises nothing, reports
\* no element from inside such a frame, and returns what it returns when
\* those frames are empty same-origin frames (nothing else is lost).
C8_CrossOriginSkipped ==
    (scanned.op # "none" /\ CrossOriginFrames(dom) # {})
    => /\ ~scanned.threw
       /\ \A e \in ResultEls : Reachable(dom, e)
       /\ LET again == Rescan(FramesEmptied(dom))
          IN ~again.threw /\ again.results = scanned.results

\* a scan of a page with a field inside a cross-origin frame and a field
\* that is reported
C8_Witness ==
    /\ scanned.op # "none"
    /\ ResultEls # {}
    /\ \E f \in CrossOriginFrames(dom) : \E e \in Nodes(dom) :
         /\ IsElement(dom, e) /\ dom[e].tag = "input"
         /\ RootOf(dom, e) = frameDocument(dom, f)

\* C9: FormFiller.scanPage returns a mapping for every fillable element of
\* every reachable context.
C9_EveryReachableContext ==
    scanned.op = "FormFiller.scanPage"
    => \A el \in Nodes(dom) :
         (IsElement(dom, el) /\ FF_isFillable(dom, el) /\ Reachable(dom, el))
         => el \in ResultEls

\* C10: every selector uniqueSelector built during a scanDOM, for a field
\* or for a crossed host/iframe, is non-empty and matches that element only.
C10_SelectorMatchesOnlyItsElement ==
    scanned.op = "scanDOM"
    => /\ \A i \in 1..Len(scanned.results) :
            LET f == scanned.results[i]
            IN f.local # <<>> /\ querySelectorAll(dom, f.root, f.local) = <<f.el>>
       /\ \A i \in 1..Len(scanned.crossed) :
            LET c == scanned.crossed[i]
            IN c.sel # <<>> /\ querySelectorAll(dom, c.root, c.sel) = <<c.el>>

(***************************************************************************)
(* Properties of FormFiller (SpecFill).                                    *)
(***************************************************************************)
\* C11: resolving a mapping FormFiller.scanPage has just returned gives an
\* element, the very one the mapping was captured from.
C11_MappingRoundTrip ==
    (resolved.op = "_resolveElement" /\ resolved.captured)
    => /\ ~resolved.outcome.threw
       /\ resolved.outcome.el = resolved.map.el

\* the boundary chain replayed as the resolver's contract words it: Frame(i)
\* is the i-th iframe of the current window's document, ShadowHost(sel) the
\* host sel locates in the current context.  status is "ok" with the final
\* context, "inaccessible" (a cross-origin frame) or "notfound" (a frame
\* index with no iframe, a selector that locates no host, a host without
\* shadow root).
RECURSIVE ChainOutcome(_, _, _, _)
ChainOutcome(d, hops, ctx, win) ==
    IF hops = <<>> THEN [status |-> "ok", ctx |-> ctx]
    ELSE
      LET hop == Head(hops)
          iframes == iframesOf(d, windowDocument(d, win))
          hosts == querySelectorAll(d, ctx, hop.sel)
      IN IF hop.kind = "frame"
         THEN IF hop.idx >= Len(iframes) THEN [status |-> "notfound", ctx |-> NoNode]
              ELSE IF d[iframes[hop.idx + 1]].access # "same"
              THEN [status |-> "inaccessible", ctx |-> NoNode]
              ELSE ChainOutcome(d, Tail(hops), frameDocument(d, iframes[hop.idx + 1]),
                                iframes[hop.idx + 1])
         ELSE IF hosts = <<>> \/ shadowRoot(d, hosts[1]) = NoNode
              THEN [status |-> "notfound", ctx |-> NoNode]
              ELSE ChainOutcome(d, Tail(hops), shadowRoot(d, hosts[1]), win)

ChainOf(map) == ChainOutcome(dom, map.framePath, TopDocument, NoNode)

\* C13: when the chain leads to a final context in which the local selector
\* matches more than one element, _resolveElement returns no element.
C13_NoArbitraryPick ==
    resolved.op = "_resolveElement"
    => LET chain == ChainOf(resolved.map)
       IN (/\ chain.status = "ok"
           /\ Len(querySelectorAll(dom, chain.ctx, resolved.map.selector)) > 1)
          => resolved.outcome.el = NoNode

\* C14: a chain with a Frame hop that designates a cross-origin iframe makes
\* _resolveElement return no element without raising, and fillRow neither
\* rejects nor skips the mappings that follow.
C14_InaccessibleIsReturned ==
    /\ (resolved.op = "_resolveElement"
          /\ ChainOf(resolved.map).status = "inaccessible")
       => (~resolved.outcome.threw /\ resolved.outcome.el = NoNode)
    /\ (resolved.op = "fillRow"
          /\ ChainOf(resolved.mappings[1]).status = "inaccessible")
       => LET last == FF_resolveElement(dom, resolved.mappings[2])
          IN /\ ~resolved.outcome.threw
             /\ resolved.outcome.applied =
                   IF last.el = NoNode THEN <<>> ELSE <<last.el>>

\* C15: a chain with a hop that cannot be followed makes _resolveElement
\* return no element, whatever hops follow it.
C15_BrokenChainResolvesNothing ==
    (resolved.op = "_resolveElement" /\ ChainOf(resolved.map).status = "notfound")
    => resolved.outcome.el = NoNode

\* the selects of Scenario B: without id, one sibling <select>, in the
\* document of the top document's first iframe, which is same-origin
ScenarioBSelects(d) ==
    LET iframes == iframesOf(d, TopDocument)
    IN IF iframes = <<>> \/ d[iframes[1]].access # "same" THEN {}
       ELSE {s \in Nodes(d) :
               /\ IsElement(d, s) /\ d[s].tag = "select" /\ d[s].id = ""
               /\ RootOf(d, s) = frameDocument(d, iframes[1])
               /\ Len(sameTagSiblings(d, s)) = 2}

\* C20: FormFiller.scanPage returns for each such select a mapping with
\* framePath [0] whose own fragment carries its same-tag ordinal.
C20_ScenarioB ==
    scanned.op = "FormFiller.scanPage"
    => \A s \in ScenarioBSelects(dom) :
         \E i \in 1..Len(scanned.results) :
            LET m == scanned.results[i]
            IN /\ m.el = s
               /\ m.framePath = <<FrameHop(0)>>
               /\ m.selector # <<>>
               /\ m.selector[Len(m.selector)].tag = "select"
               /\ m.selector[Len(m.selector)].nth = IndexOf(sameTagSiblings(dom, s), s)
               /\ m.selector[Len(m.selector)].nth > 0

\* the scan of a page with the two selects of the scenario
C20_Witness ==
    /\ scanned.op = "FormFiller.scanPage"
    /\ ScenarioBSelects(dom) # {}

(***************************************************************************)
(* Properties of scanDOM and queryDeepAll (SpecQuery).                     *)
(***************************************************************************)
\* C12: queryDeepAll on the selector of a field scanDOM has just returned
\* gives exactly one element, the one the field was captured from.
C12_DeepSelectorRoundTrip ==
    (resolved.op = "queryDeepAll" /\ resolved.captured)
    => /\ ~resolved.outcome.threw
       /\ resolved.outcome.els = <<resolved.el>>

\* the context an element gives entry to: the document of an accessible
\* same-origin iframe, the shadow root of a host, NoNode for neither
BoundaryOf(d, e) ==
    IF d[e].tag = "iframe"
    THEN IF d[e].access = "same" THEN frameDocument(d, e) ELSE NoNode
    ELSE shadowRoot(d, e)

RECURSIVE Flatten(_)
Flatten(ss) == IF ss = <<>> THEN <<>> ELSE Head(ss) \o Flatten(Tail(ss))

\* the contexts entered through the surviving boundaries of the first k
\* fragments, in discovery order
RECURSIVE ContextsAfter(_, _, _)
ContextsAfter(d, parts, k) ==
    IF k = 0 THEN <<TopDocument>>
    ELSE LET before == ContextsAfter(d, parts, k - 1)
             candidates ==
               Flatten([c \in 1..Len(before) |->
                          querySelectorAll(d, before[c], parts[k])])
         IN SelectSeq([i \in 1..Len(candidates) |-> BoundaryOf(d, candidates[i])],
                      LAMBDA r : r # NoNode)

\* every piece of the deep selector is a selector (none is empty)
ValidQuery(q) == \A i \in 1..Len(q) : q[i] # <<>>

\* C16: queryDeepAll raises nothing, and a query of valid fragments for
\* which no candidate survives as a boundary at some intermediate hop
\* returns the empty list.
C16_BoundaryDrop ==
    resolved.op = "queryDeepAll"
    => /\ ~resolved.outcome.threw
       /\ (/\ ValidQuery(resolved.query)
           /\ \E k \in 1..(Len(resolved.query) - 1) :
                 ContextsAfter(dom, resolved.query, k) = <<>>)
          => resolved.outcome.els = <<>>

\* '* >>> input' on a page whose top document holds an iframe that raises
\* on contentDocument and no element that is a boundary
C16_Witness ==
    /\ resolved.op = "queryDeepAll"
    /\ resolved.query = << AnyElement, <<Frag("input", "", {}, 0)>> >>
    /\ \E f \in Nodes(dom) :
         /\ IsElement(dom, f) /\ AccessThrows(dom, f) /\ RootOf(dom, f) = TopDocument
         /\ \E e \in Nodes(dom) : dom[e].tag = "input"
                                   /\ RootOf(dom, e) = frameDocument(dom, f)
    /\ ContextsAfter(dom, resolved.query, 1) = <<>>
    /\ resolved.outcome.els = <<>>

\* C17: the result of a query of valid fragments is the sequence of the
\* elements matching the last fragment in the contexts entered through the
\* surviving boundaries of the fragments before it, contexts in discovery
\* order and elements in document order within a context.
C17_ResultIsFinalMatches ==
    (resolved.op = "queryDeepAll" /\ ValidQuery(resolved.query)
        /\ resolved.query # <<>>)
    => LET n == Len(resolved.query)
           contexts == ContextsAfter(dom, resolved.query, n - 1)
       IN /\ ~resolved.outcome.threw
          /\ resolved.outcome.els =
                Flatten([c \in 1..Len(contexts) |->
                           querySelectorAll(dom, contexts[c], resolved.query[n])])

\* 'div >>> input' on a page with one <div>, which hosts a shadow root
\* holding exactly one <input>: the result is that input
C17_Witness ==
    /\ resolved.op = "queryDeepAll"
    /\ resolved.query = << <<Frag("div", "", {}, 0)>>, <<Frag("input", "", {}, 0)>> >>
    /\ \E h, i \in Nodes(dom) :
         /\ {e \in Nodes(dom) : dom[e].tag = "div"} = {h}
         /\ shadowRoot(dom, h) # NoNode
         /\ {e \in Nodes(dom) : dom[e].tag = "input"
                                 /\ RootOf(dom, e) = shadowRoot(dom, h)} = {i}
         /\ resolved.outcome.els = <<i>>

ScenarioAFields(d) == {e \in Nodes(d) : IsElement(d, e) /\ isField(d, e)}

ScenarioA(d) ==
    /\ Cardinality(ScenarioAFields(d)) = 1
    /\ \A e \in ScenarioAFields(d) :
         /\ d[e].tag = "input" /\ d[e].id = "email"
         /\ d[RootOf(d, e)].kind = "shadow"
         /\ RootOf(d, d[RootOf(d, e)].parent) = TopDocument

AllKeys == [k \in 1..MaxKeys |-> k]

\* C21: when fillRow returns, every key of the mapping was attempted, in
\* order; the error list holds one entry for each field that threw and
\* nothing else; success is false exactly when some field threw; and a row
\* whose field threw still reaches its result by fillRow returning.
C21_FieldFailureIsIsolated ==
    /\ runner.fillRowResult.returned =>
          /\ runner.attempted = AllKeys
          /\ runner.fillRowResult.errors = runner.failed
          /\ \A i, j \in 1..Len(runner.failed) :
                runner.failed[i] = runner.failed[j] => i = j
          /\ runner.fillRowResult.success = (runner.failed = <<>>)
    /\ runner.pc \in {"capture", "writeBack"} /\ runner.failed # <<>> =>
          runner.fillRowResult.returned /\ runner.result = runner.fillRowResult

\* the first field threw, the second was filled, fillRow returned
C21_Witness ==
    /\ runner.fillRowResult.returned
    /\ runner.failed = <<1>>
    /\ runner.attempted = AllKeys
    /\ runner.pc = "capture"

\* an await of a field fill, or of a row's epilogue, that settles after
\* abort() continues with the statement that follows it
UnitRunsOn ==
    /\ runner.pc \in FieldPcs => runner'.pc \in FieldPcs \cup {"field"}
    /\ runner.pc = "capture" => runner'.pc = "writeBack"
    /\ runner.pc = "writeBack" =>
          runner'.pc = "loop" /\ Len(runner'.rowDone) = Len(runner.rowDone) + 1

\* C22: no row, navigation or field fill is started once abort() was
\* called; a unit in progress when abort() is called runs to its end; and
\* a run() that was aborted terminates.
C22_CooperativeCancellation ==
    /\ [](runner.lateStarts = 0)
    /\ [][runner.aborted /\ runner'.pc # runner.pc => UnitRunsOn]_vars
    /\ (runner.aborted /\ runner.pc # "new" ~> runner.pc = "done")

\* abort() arrived in the middle of a field fill, the fill went on, and
\* run() has returned
C22_Witness ==
    /\ runner.aborted
    /\ runner.abortedAt \in FieldPcs
    /\ runner.stepsSinceAbort > 0
    /\ runner.row < MaxRows
    /\ runner.pc = "done"

(***************************************************************************)
(* Properties of scan and fill in one content script (SpecContent).        *)
(***************************************************************************)
\* C23: between the start of a fillForm call and its completion no
\* scanDOM execution is in progress.
C23_ScanAndFillSerialized == fill.pc = "delays" => frames = <<>>

(***************************************************************************)
(* Properties of BrowserPool (SpecPool).                                   *)
(***************************************************************************)
\* C24: createPool(size, {prewarm: true}) launches exactly size browsers
\* and returns; the pool it returns holds them idle, so that the first
\* size acquire() calls resolve at once, each with a browser of its own.
C24_PrewarmLaunchesSize ==
    pool.pc # "none" /\ pool.prewarm =>
        /\ pool.launched <= pool.size
        /\ pool.pc = "ready" /\ pool.calls = <<>> /\ pool.connected = pool.all =>
              Len(pool.idle) = pool.size /\ Cardinality(pool.all) = pool.size

\* C25: once shutdown() has resolved, no acquire() is queued, an acquire()
\* called later is rejected, no acquire() has resolved with a browser
\* since, and the pool holds no browser.
C25_ShutdownIsFinal ==
    pool.pc # "none" /\ pool.shutdown = "resolved" =>
        /\ Cardinality(pool.all) = 0
        /\ \A c \in 1..Len(pool.calls) :
              /\ pool.calls[c].st # "queued"
              /\ pool.calls[c].after => pool.calls[c].st = "rejected"
              /\ pool.calls[c].st = "resolved" => ~pool.calls[c].late

(***************************************************************************)
(* The Change Monitor as a state machine (Spec).                           *)
(***************************************************************************)
\* the monitor's state, read off the armed timers and the scanDOM frames:
\* Scanning while a scan begun by the debounce timer has not returned,
\* Pending while a debounce timer is armed, Idle otherwise
MonitorState(armed, fs) ==
    IF \E i \in 1..Len(fs) : fs[i].caller = "timer" THEN "Scanning"
    ELSE IF armed # {} THEN "Pending"
    ELSE "Idle"

MonitorStep ==
    LET s == MonitorState(timers, frames)
        t == MonitorState(timers', frames')
        notified == records > 0 /\ records' = 0
    IN /\ <<s, t>> \in {<<"Idle", "Idle">>, <<"Pending", "Pending">>,
                        <<"Scanning", "Scanning">>, <<"Idle", "Pending">>,
                        <<"Pending", "Scanning">>, <<"Scanning", "Idle">>}
       /\ notified => /\ s \in {"Idle", "Pending"}
                      /\ t = "Pending"
                      /\ timers' = {nextTimerId}
                      /\ debounceTimer' = nextTimerId
       /\ s = "Idle" /\ t = "Pending" => notified
       /\ s = "Pending" /\ t = "Pending" /\ timers' # timers => notified
       /\ s = "Pending" /\ t = "Scanning" =>
             timers = {debounceTimer} /\ timers' = {}
       /\ Cardinality(timers') <= 1

\* C26: the monitor moves only Idle -> Pending and Pending -> Pending (a
\* mutation is notified; the armed timer is cancelled and a new one is
\* armed), Pending -> Scanning (the armed timer fires) and Scanning -> Idle
\* (the scan returns); at most one timer is armed, and the timer that
\* starts a scan is the last one armed, never a cancelled one.
C26_MonitorTransitions == [][MonitorStep]_vars

\* the monitor is back in Idle after a scan that closed a window in which
\* the timer was reset
C26_Witness ==
    /\ MonitorState(timers, frames) = "Idle"
    /\ frames = <<>>
    /\ hist.closed >= 2
    /\ hist.timerScans = 1
    /\ hist.finished >= 2

(***************************************************************************)
(* The identifier shortcut of the selector synthesizers (SpecFill).        *)
(***************************************************************************)
\* the elements of el's context that carry el's id
SameIdInContext(d, el) ==
    {n \in Nodes(d) : /\ IsElement(d, n)
                      /\ RootOf(d, n) = RootOf(d, el)
                      /\ d[n].id = d[el].id}

\* C27: a mapping whose selector is the bare '#id' of its element was
\* captured from an element whose id no other element of its context
\* carries.
C27_IdShortcutOnlyWhenUnique ==
    scanned.op = "FormFiller.scanPage" /\ ~scanned.threw =>
        \A i \in 1..Len(scanned.results) :
            LET m == scanned.results[i]
            IN (dom[m.el].id # "" /\ m.selector = IdSelector(dom[m.el].id))
               => SameIdInContext(dom, m.el) = {m.el}

(***************************************************************************)
(* The order of a scanDOM result (SpecQuery).                              *)
(***************************************************************************)
\* the contexts a traversal entered, in the order it entered them: the top
\* document, then the context behind each boundary it crossed
DiscoveryOrder(d, crossed) ==
    <<TopDocument>> \o
    [k \in 1..Len(crossed) |->
        IF shadowRoot(d, crossed[k].el) # NoNode
        THEN shadowRoot(d, crossed[k].el)
        ELSE contentDocument(d, crossed[k].el)]

\* C29: in the list scanDOM returns the fields of one context are
\* contiguous, the contexts follow one another in the order the traversal
\* discovered them, and the fields of one context are in document order.
C29_ContextThenDomOrder ==
    scanned.op = "scanDOM" /\ ~scanned.threw =>
        LET order == DiscoveryOrder(dom, scanned.crossed)
            r == scanned.results
        IN \A i, j \in 1..Len(r) :
             i < j =>
               /\ IndexOf(order, r[i].root) <= IndexOf(order, r[j].root)
               /\ r[i].root = r[j].root =>
                     IndexOf(descendants(dom, r[i].root), r[i].el)
                        < IndexOf(descendants(dom, r[j].root), r[j].el)

(***************************************************************************)
(* Properties of the selector and label functions (SpecMarkup).            *)
(***************************************************************************)
\* the k-th ancestor of el (el itself for k = 0)
RECURSIVE AncestorAt(_, _, _)
AncestorAt(d, el, k) ==
    IF k = 0 THEN el ELSE AncestorAt(d, parentElement(d, el), k - 1)

\* the same-tag siblings of a, a included, that a's tag and class list match
FragmentMatches(d, a) ==
    {s \in Range(sameTagSiblings(d, a)) : d[a].cls \subseteq d[s].cls}

\* C28: a fragment of the selector uniqueSelector returns carries the
\* same-tag ordinal only when tag and class list match another same-tag
\* sibling of the element the fragment stands for.
C28_OrdinalOnlyWhenClassesTie ==
    resolved.op = "uniqueSelector" =>
        \A i \in 1..Len(resolved.selector) :
            LET a == AncestorAt(dom, resolved.el, Len(resolved.selector) - i)
            IN resolved.selector[i].nth > 0
               => Cardinality(FragmentMatches(dom, a)) > 1

\* the label the stated precedence gives: the label associated through the
\* id, else the nearest enclosing label, else the label just before
LabelByPrecedence(d, el) ==
    LET byId == IF d[el].id # "" THEN labelFor(d, RootOf(d, el), d[el].id)
                ELSE NoNode
        enclosing == enclosingLabel(d, parentElement(d, el))
        prev == previousElementSibling(d, el)
    IN IF byId # NoNode THEN byId
       ELSE IF enclosing # NoNode THEN enclosing
       ELSE IF prev # NoNode /\ IsLabel(d, prev) THEN prev
       ELSE NoNode

\* C30: extractLabelText and resolveLabelText return the text of the label
\* the precedence gives, and nothing when it gives none.
C30_LabelPrecedence ==
    resolved.op \in {"extractLabelText", "resolveLabelText"} =>
        resolved.label = LabelByPrecedence(dom, resolved.el)

(***************************************************************************)
(* What an aborted FormFillerRunner still reports (SpecRunner).            *)
(***************************************************************************)
\* C40: once abort() was called, no step of run() starts writeBackResult
\* or emits 'row-done'.
C40_NoResultAfterAbort ==
    [][runner.aborted =>
         /\ Len(runner'.rowDone) = Len(runner.rowDone)
         /\ runner'.pc = "writeBack" => runner.pc = "writeBack"]_vars


(***************************************************************************)
(* Properties of the background script (SpecBackground).                   *)
(***************************************************************************)
CallIds == 1..Len(bg.calls)
JobIds(b) == {j.id : j \in b.jobs}
AlarmIds(b) == {a.id : a \in b.alarms}
OneShot(cfg) == cfg.runAt # "none" /\ cfg.cron.form = "none"
Completes(i) == bg.calls[i].pc # "done" /\ bg'.calls[i].pc = "done"

\* C32: when onAlarm completes for a job it read as one-shot (runAt set, no
\* cron), the job is absent from the stored state and no alarm job_<id> exists.
C32_OneShotRemoved ==
    [][\A i \in CallIds :
         bg.calls[i].kind = "alarm" /\ OneShot(bg.calls[i].cfg) /\ Completes(i)
         => /\ bg.calls[i].cfg.id \notin JobIds(bg')
            /\ bg.calls[i].cfg.id \notin AlarmIds(bg')]_vars

C32_Witness ==
    \E i \in CallIds :
        /\ bg.calls[i].kind = "alarm" /\ OneShot(bg.calls[i].cfg)
        /\ bg.calls[i].pc = "done"

\* a cron expression of the form '*/N * * * *' with N >= 1
SupportedCron(cron) == cron.form = "everyN" /\ cron.n >= 1

\* the call i was made in this step
Called(i) == i = Len(bg.calls) + 1 /\ Len(bg'.calls) = i

\* C33 as stated: scheduleJob accepts a config exactly when its id is
\* non-empty and it has a future runAt or a supported cron; an accepted
\* config's job is stored with its alarm when the call completes, a rejected
\* one changes nothing.
C33_AcceptsFutureOrCron ==
    [][\A i \in 1..Len(bg'.calls) :
         LET c == bg'.calls[i]
         IN c.kind = "schedule" =>
              /\ Called(i) =>
                   /\ c.pc = "rejected" <=>
                        ~(c.cfg.id # "" /\ (c.cfg.runAt = "future"
                                            \/ SupportedCron(c.cfg.cron)))
                   /\ c.pc = "rejected" =>
                        /\ bg'.jobs = bg.jobs /\ bg'.alarms = bg.alarms
                        /\ bg'.mutex = bg.mutex
              /\ i \in CallIds /\ Completes(i) =>
                   c.cfg \in bg'.jobs /\ c.cfg.id \in AlarmIds(bg')]_vars

\* C33 amended: the same, with acceptance requiring also that a runAt that
\* is given is in the future.
C33_AcceptsUnlessPastRunAt ==
    [][\A i \in 1..Len(bg'.calls) :
         LET c == bg'.calls[i]
         IN c.kind = "schedule" =>
              /\ Called(i) =>
                   /\ c.pc = "rejected" <=>
                        ~(/\ c.cfg.id # ""
                          /\ c.cfg.runAt # "past"
                          /\ (c.cfg.runAt = "future"
                              \/ SupportedCron(c.cfg.cron)))
                   /\ c.pc = "rejected" =>
                        /\ bg'.jobs = bg.jobs /\ bg'.alarms = bg.alarms
                        /\ bg'.mutex = bg.mutex
              /\ i \in CallIds /\ Completes(i) =>
                   c.cfg \in bg'.jobs /\ c.cfg.id \in AlarmIds(bg')]_vars

C33_Witness ==
    /\ \E i \in CallIds :
         /\ bg.calls[i].kind = "schedule" /\ bg.calls[i].pc = "done"
         /\ bg.calls[i].cfg.runAt = "none"
    /\ \E i \in CallIds :
         /\ bg.calls[i].kind = "schedule" /\ bg.calls[i].pc = "rejected"
         /\ bg.calls[i].cfg.runAt = "past"
         /\ SupportedCron(bg.calls[i].cfg.cron)

InCritical == {i \in CallIds : bg.calls[i].pc \in CriticalPcs}

\* C34: at most one of scheduleJob, cancelJob and resetState is between
\* acquiring and releasing the mutex, and no saveState overwrites a stored
\* state other than the one its call read.
C34_MutualExclusion ==
    Cardinality(InCritical) <= 1 /\ ~bg.lost

C34_Witness ==
    /\ Cardinality(InCritical) = 1
    /\ \E i \in CallIds : bg.calls[i].pc = "waiting"
    /\ \E i \in CallIds :
         bg.calls[i].kind = "schedule" /\ bg.calls[i].pc = "done"

Completed(i) ==
    i <= Len(bg.calls) /\ bg.calls[i].pc \in {"done", "rejected"}

\* C35: every call of scheduleJob, cancelJob, resetState and onAlarm
\* completes, the browser's requests all settling: no acquire() of the
\* mutex stays pending.
C35_EveryCallCompletes ==
    \A i \in 1..MaxCalls : [](i <= Len(bg.calls) => <>Completed(i))

Quiescent == \A i \in CallIds : bg.calls[i].pc \in {"done", "rejected"}

\* C39: when no call is in progress, the stored job ids are the ids with a
\* pending alarm.
C39_JobsMatchAlarms ==
    Quiescent => JobIds(bg) = AlarmIds(bg)


(***************************************************************************)
(* Properties of BrowserPool: capacity, leases, settling.                  *)
(***************************************************************************)
\* C36: stats().total, the number of browsers in all, is at most size.
C36_TotalWithinCapacity ==
    pool.pc # "none" => Cardinality(pool.all) <= pool.size

\* C37: no acquire() resolves with a browser that is leased, and no leased
\* browser is in idle.
C37_ExclusiveLease ==
    pool.pc # "none" =>
        /\ ~pool.double
        /\ \A i \in 1..Len(pool.idle) : pool.idle[i] \notin pool.leased

C37_Witness ==
    /\ pool.pc # "none"
    /\ \E c1, c2 \in 1..Len(pool.calls) :
         /\ c1 # c2
         /\ pool.calls[c1].st = "resolved" /\ pool.calls[c2].st = "resolved"
         /\ pool.calls[c1].b = pool.calls[c2].b
         /\ pool.calls[c2].b \in pool.leased

AcquireSettled(c) ==
    /\ pool.pc # "none"
    /\ c <= Len(pool.calls)
    /\ pool.calls[c].st \in {"resolved", "rejected"}

AcquireCalled(c) == pool.pc # "none" /\ c <= Len(pool.calls)
LaunchesSpent == pool.pc # "none" /\ pool.launched >= MaxLaunches

\* C38: every acquire() call is eventually resolved or rejected, every
\* launch and close settling and every leased browser being released (as
\* long as launches remain within MaxLaunches).
C38_AcquireSettles ==
    \A c \in 1..MaxAcquires :
        [](AcquireCalled(c) =>
             <>(AcquireSettled(c) \/ LaunchesSpent))


(***************************************************************************)
(* Properties of typing (SpecTyping).                                      *)
(***************************************************************************)
LogAt(e) == {p \in 1..Len(typing.log) : typing.log[p].e = e}
Writes == SelectSeq(typing.log, LAMBDA x : x.e = "write")

\* the value the first character is appended to
TypedOnto ==
    IF typing.who = "_typeText" \/ typing.clearExisting THEN <<>>
    ELSE typing.log[1].v

\* the characters are written one at a time in text order, and each
\* character's input event comes before the next character is written
WrittenInOrder ==
    /\ Len(Writes) = Len(typing.text)
    /\ \A k \in 1..Len(Writes) :
         Writes[k].v = TypedOnto \o SubSeq(typing.text, 1, k)
    /\ \A p \in LogAt("write") :
         \E q \in LogAt("input") :
             /\ p < q
             /\ typing.log[q].v = typing.log[p].v
             /\ \A r \in LogAt("write") : r <= p \/ q < r

\* C31 as stated: when the typing is done the characters were written in
\* text order, each with its input event before the next was written, and
\* change was dispatched exactly once, after the last character.
C31_TypedInOrderOneChange ==
    typing.pc = "done" =>
        /\ WrittenInOrder
        /\ Cardinality(LogAt("change")) = 1
        /\ \A c \in LogAt("change") : \A p \in LogAt("write") : p < c

\* C31 amended: the same, except that simulateTyping with clearExisting
\* dispatches one more change, for the clearing, before the first character
\* is written.
C31_TypedInOrderChangeAtEnd ==
    typing.pc = "done" =>
        /\ WrittenInOrder
        /\ typing.log[Len(typing.log)].e = "change"
        /\ LET early == LogAt("change") \ {Len(typing.log)}
           IN IF typing.who = "simulateTyping" /\ typing.clearExisting
              THEN /\ Cardinality(early) = 1
                   /\ \A c \in early : \A p \in LogAt("write") : c < p
              ELSE early = {}

C31_Witness ==
    /\ typing.pc = "done"
    /\ typing.who = "simulateTyping" /\ typing.clearExisting
    /\ Len(typing.text) = MaxTextLen
    /\ typing.text[1] # typing.text[2]

====
